---- MODULE Spec2Model ----
(***************************************************************************)
(* A model of red-smv's manifest parser (src/src/smv_parser.rs).           *)
(*                                                                         *)
(* parse_smv_file reads the manifest line by line.  One iteration of its   *)
(* for-loop is one step of the model: the end-of-block phase (the first    *)
(* match on the state) followed by the handler of the mode that is active  *)
(* afterwards (the second match).  After the last line the pending         *)
(* aggregate is converted by SmvFile::try_from.                            *)
(*                                                                         *)
(* Text is modelled at the level the code looks at it: a line is its       *)
(* leading whitespace, its whitespace-separated tokens, and the whitespace *)
(* that follows the first token.  A token is an unsigned literal, a        *)
(* negative literal, a decimal literal or a word.  An f64 is represented   *)
(* by twice its value, so that the literals n and n.5 parse to 2n and 2n+1.*)
(* An Option is a sequence of length 0 or 1.                               *)
(*                                                                         *)
(* The second part models the slice parser (src/src/slice_parser.rs) over  *)
(* a byte stream: a call of SliceParser::new, parse_frame, get_frame or    *)
(* parse_slice_file is one step.                                           *)
(***************************************************************************)
EXTENDS Integers, Sequences, FiniteSets, TLC

VARIABLES
    input,      \* the family of files the lines are drawn from
    state,      \* parse_smv_file: `state`
    pending,    \* parse_smv_file: `pending_file`
    stage,      \* "lines" while in the for-loop, "final" after try_into
    outcome,    \* how the call ended: running / ok / err / panic, with the message
    manifest,   \* the returned SmvFile, as an Option
    block,      \* history: the lines read since the last dispatch of a header
    ended,      \* history: what the end-of-block phase did on the last line
    bytes,      \* the bytes of the slice stream
    parser,     \* the SliceParser, as an Option (None before new and after a failed new)
    last        \* the last call on the slice stream and what it returned

smvVars == <<input, state, pending, stage, outcome, manifest, block, ended>>
sliceVars == <<bytes, parser, last>>
vars == <<input, state, pending, stage, outcome, manifest, block, ended, bytes, parser, last>>

(***************************************************************************)
(* Bounds of the model.                                                    *)
(***************************************************************************)
\* records a file of the full-alphabet family may complete
MaxRecords == 1
\* OBST (VENT) blocks a file of the obstruction (vent) family may complete
MaxBlocks == 1
\* required blocks and others a file of the required-block family may complete
MaxRequired == 3
\* per-mesh records of one kind an aggregate of the finalization family may hold
MaxMesh == 2
\* largest count an OBST or VENT count line declares
MaxCount == 2
\* entries a TRN table may hold
MaxTrn == 1
\* payloads a body line may carry
Vals == {1, 2}

None == <<>>
Some(x) == <<x>>
IsSome(o) == Len(o) = 1
Unwrap(o) == o[1]

(***************************************************************************)
(* Tokens and lines.                                                       *)
(***************************************************************************)
U(n) == [k |-> "uint", v |-> n, w |-> ""]
Neg(n) == [k |-> "neg", v |-> n, w |-> ""]
Dec(n) == [k |-> "real", v |-> n, w |-> ""]
W(s) == [k |-> "word", v |-> 0, w |-> s]

\* a text: the whitespace it starts with and its tokens
Str(ws, toks) == [ws |-> ws, toks |-> toks]
EmptyStr == Str("none", <<>>)

Line(lead, toks, sep) == [lead |-> lead, toks |-> toks, sep |-> sep]
Header(toks) == Line("none", toks, IF Len(toks) > 1 THEN "space" ELSE "none")
Body(toks) == Line("space", toks, "space")
EmptyLine == Line("none", <<>>, "none")

\* String::is_empty
\* a loop that skips no line
IsEmptyNever(line) == FALSE

IsEmpty(line) == line.lead = "none" /\ line.toks = <<>>

\* line.starts_with(|c| !c.is_whitespace())
EndBlockLine(line) == line.lead = "none" /\ line.toks # <<>>

\* line.starts_with(|c| c.is_whitespace())
StartsWithWhitespace(line) == line.lead # "none"

LineStr(line) == Str(line.lead, line.toks)

\* str::strip_prefix(' '): an Option
StripPrefixSpace(s) ==
    CASE s.ws = "space" -> Some(Str("none", s.toks))
      [] s.ws = "space2" -> Some(Str("space", s.toks))
      [] OTHER -> None

\* str::trim
Trim(s) == Str("none", s.toks)

\* line.find(char::is_whitespace) and split_at: the name and the remainder
SplitName(line) ==
    IF line.toks = <<>> THEN [name |-> "", remainder |-> EmptyStr]
    ELSE [name |-> IF line.toks[1].k = "word" THEN line.toks[1].w ELSE "?",
          remainder |-> Str(line.sep, Tail(line.toks))]

(***************************************************************************)
(* str::parse for the numeric types.  ty is "u" (u64, usize), "i" (i64,    *)
(* i32) or "f" (f64).                                                      *)
(***************************************************************************)
TokOk(t, ty) ==
    CASE ty = "u" -> t.k = "uint"
      [] ty = "i" -> t.k \in {"uint", "neg"}
      [] ty = "f" -> t.k \in {"uint", "neg", "real"}

TokVal(t, ty) ==
    CASE ty = "u" -> t.v
      [] ty = "i" -> IF t.k = "neg" THEN 0 - t.v ELSE t.v
      [] ty = "f" -> CASE t.k = "uint" -> 2 * t.v
                       [] t.k = "neg" -> 0 - 2 * t.v
                       [] OTHER -> 2 * t.v + 1

\* s.trim().parse::<T>(): the text must be exactly one literal of the type
ParseOk(s, ty) == Len(s.toks) = 1 /\ TokOk(s.toks[1], ty)
ParseVal(s, ty) == TokVal(s.toks[1], ty)

\* values.next().unwrap().parse().unwrap() for each type of tys, in order
FieldsOk(toks, tys) ==
    /\ Len(toks) >= Len(tys)
    /\ \A i \in 1..Len(tys) : TokOk(toks[i], tys[i])
Fields(toks, tys) == [i \in 1..Len(tys) |-> TokVal(toks[i], tys[i])]

Rep(n, x) == [i \in 1..n |-> x]
Drop(s, n) == SubSeq(s, n + 1, Len(s))

(***************************************************************************)
(* The value types of the manifest.                                        *)
(***************************************************************************)
Xb(s) == [x1 |-> s[1], x2 |-> s[2], y1 |-> s[3], y2 |-> s[4], z1 |-> s[5], z2 |-> s[6]]
Xyz(s) == [x |-> s[1], y |-> s[2], z |-> s[3]]
GridRegion(s) == [i1 |-> s[1], i2 |-> s[2], j1 |-> s[3], j2 |-> s[4], k1 |-> s[5], k2 |-> s[6]]
Surfaces(s) ==
    [min_x |-> s[1], max_x |-> s[2], min_y |-> s[3], max_y |-> s[4], min_z |-> s[5], max_z |-> s[6]]
Rgbf(s) == [r |-> s[1], g |-> s[2], b |-> s[3]]
Rgbaf(s) == [r |-> s[1], g |-> s[2], b |-> s[3], a |-> s[4]]

F6 == <<"f", "f", "f", "f", "f", "f">>
F3 == <<"f", "f", "f">>
I6 == <<"i", "i", "i", "i", "i", "i">>

ObstFirstHalfTys == F6 \o <<"i">> \o <<"u", "u", "u", "u", "u", "u">>

\* <ObstFirstHalf as FromStr>::from_str followed by the caller's unwrap
ObstFirstHalfOk(toks) ==
    /\ FieldsOk(toks, ObstFirstHalfTys)
    /\ Len(toks) > 13 => FieldsOk(Drop(toks, 13), F3)

ObstFirstHalf(toks) ==
    LET f == Fields(toks, ObstFirstHalfTys) IN
    [xb_exact |-> Xb(SubSeq(f, 1, 6)),
     blockage_id |-> f[7],
     surfaces |-> Surfaces(SubSeq(f, 8, 13)),
     texture_origin |-> IF Len(toks) > 13 THEN Some(Xyz(Fields(Drop(toks, 13), F3))) ELSE None]

ObstSecondHalfTys == I6 \o <<"i", "i">>

ObstSecondHalfOk(toks) == FieldsOk(toks, ObstSecondHalfTys)

ObstSecondHalf(toks) ==
    LET f == Fields(toks, ObstSecondHalfTys) IN
    [ijk |-> GridRegion(SubSeq(f, 1, 6)), color_index |-> f[7], block_type |-> f[8]]

VentFirstHalfTys == F6 \o <<"u", "u">>

VentFirstHalfOk(toks) ==
    /\ FieldsOk(toks, VentFirstHalfTys)
    /\ Len(toks) > 8 => FieldsOk(Drop(toks, 8), F3)

VentFirstHalf(toks) ==
    LET f == Fields(toks, VentFirstHalfTys) IN
    [xb_exact |-> Xb(SubSeq(f, 1, 6)),
     vent_id |-> f[7],
     s_num |-> f[8],
     texture_origin |-> IF Len(toks) > 8 THEN Some(Xyz(Fields(Drop(toks, 8), F3))) ELSE None]

VentSecondHalfTys == I6 \o <<"i", "i">>

VentSecondHalfOk(toks) ==
    /\ FieldsOk(toks, VentSecondHalfTys)
    /\ Len(toks) > 8 => FieldsOk(Drop(toks, 8), <<"f", "f", "f", "f">>)

VentSecondHalf(toks) ==
    LET f == Fields(toks, VentSecondHalfTys) IN
    [ijk |-> GridRegion(SubSeq(f, 1, 6)),
     vent_index |-> f[7],
     vent_type |-> f[8],
     color |-> IF Len(toks) > 8
               THEN Some(Rgbaf(Fields(Drop(toks, 8), <<"f", "f", "f", "f">>)))
               ELSE None]

TrnEntryOk(toks) == FieldsOk(toks, <<"u", "f">>)
TrnEntry(toks) == LET f == Fields(toks, <<"u", "f">>) IN [i |-> f[1], f |-> f[2]]

SmvObstNew(half1, half2) ==
    [xb_exact |-> half1.xb_exact,
     id |-> half1.blockage_id,
     surfaces |-> half1.surfaces,
     ijk |-> half2.ijk,
     colour_index |-> half2.color_index,
     block_type |-> half2.block_type]

SmvVentNew(half1, half2) ==
    [xb_exact |-> half1.xb_exact,
     vent_id |-> half1.vent_id,
     s_num |-> half1.s_num,
     texture_origin |-> half1.texture_origin,
     ijk |-> half2.ijk,
     vent_index |-> half2.vent_index,
     vent_type |-> half2.vent_type,
     color |-> half2.color]

\* Iterator::zip of the two vectors of halves: as long as the shorter one
Min(a, b) == IF a < b THEN a ELSE b
ZipObsts(xs, ys) == [i \in 1..Min(Len(xs), Len(ys)) |-> SmvObstNew(xs[i], ys[i])]
ZipVents(xs, ys) == [i \in 1..Min(Len(xs), Len(ys)) |-> SmvVentNew(xs[i], ys[i])]

SmvMeshNew(grid, obsts, vents, trnx, trny, trnz, pdims, offset) ==
    [name |-> grid.name,
     i_bar |-> grid.i_bar,
     j_bar |-> grid.j_bar,
     k_bar |-> grid.k_bar,
     mesh_type |-> grid.mesh_type,
     obsts |-> obsts,
     vents |-> vents,
     trnx |-> trnx,
     trny |-> trny,
     trnz |-> trnz,
     dims |-> Xb(<<pdims.xbar0, pdims.xbar, pdims.ybar0, pdims.ybar, pdims.zbar0, pdims.zbar>>),
     color |-> pdims.color,
     offset |-> offset]

(***************************************************************************)
(* PendingSmvFile and its conversion to SmvFile.                           *)
(***************************************************************************)
PendingSmvFileNew ==
    [title |-> None, fds_version |-> None, revision |-> None, n_meshes |-> None,
     input_filename |-> None, endf_filename |-> None, surf_def |-> None,
     view_times |-> None, albedo |-> None, i_blank |-> None, gvec |-> None,
     chid |-> None, csvfs |-> <<>>, offsets |-> <<>>, grids |-> <<>>, pdims |-> <<>>,
     obsts |-> <<>>, vents |-> <<>>, surfs |-> <<>>, events |-> <<>>, prt5s |-> <<>>,
     bndfs |-> <<>>, devcs |-> <<>>, device_acts |-> <<>>, xyzs |-> <<>>,
     slcfs |-> <<>>, inpfs |-> <<>>, trnx |-> <<>>, trny |-> <<>>, trnz |-> <<>>,
     solid_ht3d |-> None, texture_origin |-> None, smoke_3d |-> <<>>]

Running == [kind |-> "running", msg |-> ""]
Ok == [kind |-> "ok", msg |-> ""]
Panic == [kind |-> "panic", msg |-> ""]
Err(m) == [kind |-> "err", msg |-> m]

\* the sub-grammar of the title and of the case identifier (crate chid): a text
\* is accepted unless it holds a character sequence outside the grammar
SubGrammarAccepts(s) == \A i \in 1..Len(s.toks) : s.toks[i].k # "ctl"

\* the eight counts compared by try_from
MeshCounts(p) ==
    <<Len(p.grids), Len(p.obsts), Len(p.vents), Len(p.trnx), Len(p.trny),
      Len(p.trnz), Len(p.pdims), Len(p.offsets)>>

\* try_from without the comparison of the OFFSET count
EqualNSkipsOffsets(p) == \A i \in 1..7 : MeshCounts(p)[i] = Len(p.grids)

EqualN(p) == \A i \in 1..8 : MeshCounts(p)[i] = Len(p.grids)

\* a zip that takes the obstruction lists from the back
MeshesObstsReversed(p) ==
    LET n == Min(Len(p.grids), Min(Len(p.obsts), Min(Len(p.vents), Min(Len(p.trnx),
             Min(Len(p.trny), Min(Len(p.trnz), Min(Len(p.pdims), Len(p.offsets))))))))
    IN [i \in 1..n |-> SmvMeshNew(p.grids[i], p.obsts[n + 1 - i], p.vents[i], p.trnx[i],
                                  p.trny[i], p.trnz[i], p.pdims[i], p.offsets[i])]

\* the zip of the eight lists and the loop over it
Meshes(p) ==
    LET n == Min(Len(p.grids), Min(Len(p.obsts), Min(Len(p.vents), Min(Len(p.trnx),
             Min(Len(p.trny), Min(Len(p.trnz), Min(Len(p.pdims), Len(p.offsets))))))))
    IN [i \in 1..n |-> SmvMeshNew(p.grids[i], p.obsts[i], p.vents[i], p.trnx[i],
                                  p.trny[i], p.trnz[i], p.pdims[i], p.offsets[i])]

\* the unwraps of the struct literal
RequiredOk(p) ==
    /\ IsSome(p.title) /\ SubGrammarAccepts(Unwrap(p.title))
    /\ IsSome(p.chid) /\ SubGrammarAccepts(Unwrap(p.chid))
    /\ IsSome(p.input_filename)

SmvFileOf(p) ==
    [title |-> Unwrap(p.title),
     chid |-> Unwrap(p.chid),
     csvfs |-> p.csvfs,
     surfs |-> p.surfs,
     meshes |-> Meshes(p),
     xyzs |-> p.xyzs,
     solid_ht3d |-> p.solid_ht3d,
     input_filename |-> Unwrap(p.input_filename),
     endf_filename |-> p.endf_filename,
     fds_version |-> p.fds_version,
     surf_def |-> p.surf_def,
     view_times |-> p.view_times,
     albedo |-> p.albedo,
     i_blank |-> p.i_blank,
     gvec |-> p.gvec,
     events |-> p.events,
     device_acts |-> p.device_acts,
     slcfs |-> p.slcfs,
     prt5s |-> p.prt5s,
     bndfs |-> p.bndfs,
     devcs |-> p.devcs,
     texture_origin |-> p.texture_origin]

\* a conversion that hands out the records accumulated so far when it fails
TryFromKeepsRecords(p) ==
    IF ~EqualN(p) THEN [outcome |-> Err("mesh entries unbalanced"), manifest |-> Some(p)]
    ELSE IF ~RequiredOk(p) THEN [outcome |-> Panic, manifest |-> Some(p)]
    ELSE [outcome |-> Ok, manifest |-> Some(SmvFileOf(p))]

\* a conversion that validates the mesh lists against the NMESHES value
TryFromChecksNMeshes(p) ==
    IF ~EqualN(p) THEN [outcome |-> Err("mesh entries unbalanced"), manifest |-> None]
    ELSE IF IsSome(p.n_meshes) /\ Unwrap(p.n_meshes) # Len(p.grids)
    THEN [outcome |-> Err("mesh entries unbalanced"), manifest |-> None]
    ELSE IF ~RequiredOk(p) THEN [outcome |-> Panic, manifest |-> None]
    ELSE [outcome |-> Ok, manifest |-> Some(SmvFileOf(p))]

\* <SmvFile as TryFrom<PendingSmvFile>>::try_from: the outcome and the manifest
TryFrom(p) ==
    IF ~EqualN(p) THEN [outcome |-> Err("mesh entries unbalanced"), manifest |-> None]
    ELSE IF ~RequiredOk(p) THEN [outcome |-> Panic, manifest |-> None]
    ELSE [outcome |-> Ok, manifest |-> Some(SmvFileOf(p))]


(***************************************************************************)
(* ParserState.  A state is a record: its mode and the payload of the      *)
(* variant.                                                                *)
(***************************************************************************)
St(mode) == [mode |-> mode]
NoBlock == St("None")

\* the result of one phase of a loop iteration
Res(st, p, oc) == [state |-> st, pending |-> p, outcome |-> oc]

Push(p, field, x) == [p EXCEPT ![field] = Append(@, x)]
Set(p, field, x) == [p EXCEPT ![field] = Some(x)]

(***************************************************************************)
(* "Apply special end conditions": the first match on the state, taken     *)
(* when the line starts with a non-whitespace character.                   *)
(***************************************************************************)
TrnField(axis) == CASE axis = "X" -> "trnx" [] axis = "Y" -> "trny" [] axis = "Z" -> "trnz"

\* a first match that leaves the last stage of a SURFACE record active as well
EndBlockKeepsSurface4(st, p, line) ==
    IF ~EndBlockLine(line) THEN Res(st, p, Running)
    ELSE CASE st.mode = "Trn2" -> Res(NoBlock, Push(p, TrnField(st.axis), st.entries), Running)
           [] st.mode = "ObstBlock2" /\ st.n = 0 -> Res(NoBlock, Push(p, "obsts", <<>>), Running)
           [] st.mode = "Vent2" /\ st.n_vents = 0 /\ st.n_dummy_vents = 0 ->
                  Res(NoBlock, Push(p, "vents", <<>>), Running)
           [] st.mode \in {"Surface3", "Surface4"} -> Res(st, p, Running)
           [] st.mode \in {"FdsVersion1", "FdsVersion2", "Revision"} -> Res(st, p, Running)
           [] OTHER -> Res(NoBlock, p, Running)

\* a first match without the arm of the empty vent list
EndBlockDropsEmptyVents(st, p, line) ==
    IF ~EndBlockLine(line) THEN Res(st, p, Running)
    ELSE CASE st.mode = "Trn2" -> Res(NoBlock, Push(p, TrnField(st.axis), st.entries), Running)
           [] st.mode = "ObstBlock2" /\ st.n = 0 -> Res(NoBlock, Push(p, "obsts", <<>>), Running)
           [] st.mode = "Surface3" -> Res(st, p, Running)
           [] st.mode \in {"FdsVersion1", "FdsVersion2", "Revision"} -> Res(st, p, Running)
           [] OTHER -> Res(NoBlock, p, Running)

\* a first match without the arm of the version and revision modes
EndBlockResetsVersion(st, p, line) ==
    IF ~EndBlockLine(line) THEN Res(st, p, Running)
    ELSE CASE st.mode = "Trn2" -> Res(NoBlock, Push(p, TrnField(st.axis), st.entries), Running)
           [] st.mode = "ObstBlock2" /\ st.n = 0 -> Res(NoBlock, Push(p, "obsts", <<>>), Running)
           [] st.mode = "Vent2" /\ st.n_vents = 0 /\ st.n_dummy_vents = 0 ->
                  Res(NoBlock, Push(p, "vents", <<>>), Running)
           [] st.mode = "Surface3" -> Res(st, p, Running)
           [] OTHER -> Res(NoBlock, p, Running)

\* a first match that appends what an interrupted OBST block has paired so far
EndBlockKeepsHalves(st, p, line) ==
    IF ~EndBlockLine(line) THEN Res(st, p, Running)
    ELSE CASE st.mode = "Trn2" -> Res(NoBlock, Push(p, TrnField(st.axis), st.entries), Running)
           [] st.mode = "ObstBlock2" /\ st.n = 0 -> Res(NoBlock, Push(p, "obsts", <<>>), Running)
           [] st.mode = "ObstBlock3" ->
                  Res(NoBlock, Push(p, "obsts", ZipObsts(st.first_obsts, st.second_obsts)),
                      Running)
           [] st.mode = "Vent2" /\ st.n_vents = 0 /\ st.n_dummy_vents = 0 ->
                  Res(NoBlock, Push(p, "vents", <<>>), Running)
           [] st.mode = "Surface3" -> Res(st, p, Running)
           [] st.mode \in {"FdsVersion1", "FdsVersion2", "Revision"} -> Res(st, p, Running)
           [] OTHER -> Res(NoBlock, p, Running)

EndBlock(st, p, line) ==
    IF ~EndBlockLine(line) THEN Res(st, p, Running)
    ELSE CASE st.mode = "Trn2" -> Res(NoBlock, Push(p, TrnField(st.axis), st.entries), Running)
           [] st.mode = "ObstBlock2" /\ st.n = 0 -> Res(NoBlock, Push(p, "obsts", <<>>), Running)
           [] st.mode = "Vent2" /\ st.n_vents = 0 /\ st.n_dummy_vents = 0 ->
                  Res(NoBlock, Push(p, "vents", <<>>), Running)
           [] st.mode = "Surface3" -> Res(st, p, Running)
           [] st.mode \in {"FdsVersion1", "FdsVersion2", "Revision"} -> Res(st, p, Running)
           [] OTHER -> Res(NoBlock, p, Running)

(***************************************************************************)
(* The handlers: the arms of the second match on the state.                *)
(***************************************************************************)
\* the keywords whose arm only sets the starting mode
\* an unrecognized keyword that opens a one-line block to be skipped
UnrecognizedOpensBlock(name) == "Material"

\* `name => { eprintln!("Unrecognized block: ..."); state = ParserState::None; }`
Unrecognized(name) == "None"

StartMode(name) ==
    CASE name = "TITLE" -> "TitleBlock"
      [] name = "FDSVERSION" -> "FdsVersion1"
      [] name = "REVISION" -> "Revision"
      [] name = "CHID" -> "ChidBlock"
      [] name = "NMESHES" -> "NMeshes"
      [] name = "VIEWTIMES" -> "ViewTimes"
      [] name = "ALBEDO" -> "Albedo"
      [] name = "IBLANK" -> "IBlank"
      [] name = "GVEC" -> "GVec"
      [] name = "MATERIAL" -> "Material"
      [] name = "CLASS_OF_PARTICLES" -> "ClassOfParticles"
      [] name = "OUTLINE" -> "Outline"
      [] name = "TOFFSET" -> "TOffset"
      [] name = "HRRPUVCUT" -> "HrrPuvCut"
      [] name = "RAMP" -> "Ramp"
      [] name = "ENDF" -> "Endf"
      [] name = "SURFDEF" -> "SurfDef"
      [] name = "PROP" -> "Prop"
      [] name = "DEVICE" -> "Device1"
      [] name = "OFFSET" -> "Offset"
      [] name = "PDIM" -> "Pdim"
      [] name = "VENT" -> "Vent1"
      [] name = "CVENT" -> "CVent"
      [] name = "CSVF" -> "CsvfBlock1"
      [] name = "INPF" -> "InpfBlock"
      [] name = "OBST" -> "ObstBlock1"
      [] name = "SURFACE" -> "Surface1"
      [] name = "SOLID_HT3D" -> "SolidHt3d"
      [] name = "PL3D" -> "Pl3d"
      [] name = "XYZ" -> "Xyz"
      [] OTHER -> Unrecognized(name)

\* the keywords that take a count from the rest of the header line
CountMode(name) ==
    CASE name = "PRT5" -> "Prt51"
      [] name = "CLOSE_VENT" -> "CloseVent"
      [] name = "OPEN_VENT" -> "OpenVent"
      [] name = "HIDE_OBST" -> "HideObst"
      [] name = "SHOW_OBST" -> "ShowObst"

HNone(st, p, line) ==
    IF StartsWithWhitespace(line) THEN Res(st, p, Running)
    ELSE
    LET name == SplitName(line).name
        remainder == SplitName(line).remainder
    IN
    CASE name = "GRID" ->
             IF StripPrefixSpace(remainder) = None THEN Res(st, p, Panic)
             ELSE Res([mode |-> "Grid", name |-> remainder], p, Running)
      [] name \in {"SMOKF3D", "SMOKG3D"} ->
             IF ~ParseOk(remainder, "u") THEN Res(st, p, Panic)
             ELSE Res([mode |-> "Smoke3d1",
                       smoke_type |-> IF name = "SMOKF3D" THEN "F" ELSE "G",
                       mesh |-> ParseVal(remainder, "u")], p, Running)
      [] name \in {"SLCC", "SLCF"} ->
             Res([mode |-> "Slcf1", cell_centred |-> (name = "SLCC"), vs |-> remainder],
                 p, Running)
      [] name = "BNDF" ->
             IF ~FieldsOk(remainder.toks, <<"u", "u">>) THEN Res(st, p, Panic)
             ELSE Res([mode |-> "Bndf1",
                       a |-> Fields(remainder.toks, <<"u", "u">>)[1],
                       b |-> Fields(remainder.toks, <<"u", "u">>)[2]], p, Running)
      [] name \in {"PRT5", "CLOSE_VENT", "OPEN_VENT", "HIDE_OBST", "SHOW_OBST"} ->
             IF ~ParseOk(remainder, "u") THEN Res(st, p, Panic)
             ELSE Res([mode |-> CountMode(name), n |-> ParseVal(remainder, "u")], p, Running)
      [] name = "DEVICE_ACT" -> Res([mode |-> "DeviceAct", name |-> remainder], p, Running)
      [] name = "TRNX" -> Res([mode |-> "Trn1", axis |-> "X"], p, Running)
      [] name = "TRNY" -> Res([mode |-> "Trn1", axis |-> "Y"], p, Running)
      [] name = "TRNZ" -> Res([mode |-> "Trn1", axis |-> "Z"], p, Running)
      [] OTHER -> Res(St(StartMode(name)), p, Running)

\* the arms that strip the leading space and store the text
StrippedOk(line) == StripPrefixSpace(LineStr(line)) # None
Stripped(line) == Unwrap(StripPrefixSpace(LineStr(line)))

HTitleBlock(st, p, line) ==
    IF ~StrippedOk(line) THEN Res(st, p, Panic)
    ELSE Res(NoBlock, Set(p, "title", Stripped(line)), Running)

HFdsVersion1(st, p, line) == Res(St("FdsVersion2"), Set(p, "fds_version", LineStr(line)), Running)

\* an FdsVersion2 arm that keeps the first version line
HFdsVersion2KeepsFirst(st, p, line) == Res(NoBlock, p, Running)

HFdsVersion2(st, p, line) == Res(NoBlock, Set(p, "fds_version", LineStr(line)), Running)

HRevision(st, p, line) == Res(NoBlock, Set(p, "revision", LineStr(line)), Running)

\* strip the space, trim, parse with `?`: a parse error is returned, not a panic
HScalar(st, p, line, field, ty) ==
    IF ~StrippedOk(line) THEN Res(st, p, Panic)
    ELSE IF ~ParseOk(Stripped(line), ty) THEN Res(st, p, Err("parse"))
    ELSE Res(NoBlock, Set(p, field, ParseVal(Stripped(line), ty)), Running)

HNMeshes(st, p, line) == HScalar(st, p, line, "n_meshes", "u")
HAlbedo(st, p, line) == HScalar(st, p, line, "albedo", "f")
HIBlank(st, p, line) == HScalar(st, p, line, "i_blank", "u")
HSolidHt3d(st, p, line) == HScalar(st, p, line, "solid_ht3d", "i")

HViewTimes(st, p, line) ==
    IF ~StrippedOk(line) \/ ~FieldsOk(line.toks, <<"f", "f", "u">>) THEN Res(st, p, Panic)
    ELSE LET f == Fields(line.toks, <<"f", "f", "u">>) IN
         Res(NoBlock,
             Set(p, "view_times", [tour_tstart |-> f[1], tour_tstop |-> f[2], tour_ntimes |-> f[3]]),
             Running)

HGVec(st, p, line) ==
    IF ~StrippedOk(line) \/ ~FieldsOk(line.toks, F3) THEN Res(st, p, Panic)
    ELSE Res(NoBlock, Set(p, "gvec", Xyz(Fields(line.toks, F3))), Running)

\* the arms that ignore their line ("TODO: Parse")
HSkip(st, p, line) == Res(NoBlock, p, Running)

HEvent(st, p, line) ==
    IF ~FieldsOk(line.toks, <<"u", "f">>) THEN Res(st, p, Panic)
    ELSE LET f == Fields(line.toks, <<"u", "f">>) IN
         Res(NoBlock, Push(p, "events", [event |-> st.mode, n |-> st.n, i |-> f[1], t |-> f[2]]),
             Running)

HTOffset(st, p, line) ==
    IF ~FieldsOk(line.toks, F3) THEN Res(st, p, Panic)
    ELSE Res(NoBlock, Set(p, "texture_origin", Xyz(Fields(line.toks, F3))), Running)

\* line.split('%'): the pieces before and after the first "%"
PercentAt(toks) ==
    IF \E i \in 1..Len(toks) : toks[i] = W("%")
    THEN CHOOSE i \in 1..Len(toks) : toks[i] = W("%") /\ \A j \in 1..(i - 1) : toks[j] # W("%")
    ELSE 0

HDevice1(st, p, line) ==
    LET at == PercentAt(line.toks) IN
    IF at = 0 THEN Res(st, p, Panic)
    ELSE LET rest == Drop(line.toks, at)
             upto == IF PercentAt(rest) = 0 THEN Len(rest) ELSE PercentAt(rest) - 1
         IN Res([mode |-> "Device2",
                 name |-> Str("none", SubSeq(line.toks, 1, at - 1)),
                 quantity |-> Str(IF upto > 0 THEN "space" ELSE "none", SubSeq(rest, 1, upto))],
                p, Running)

Device2Tys == F6 \o <<"i", "i">>

HDevice2(st, p, line) ==
    LET toks == line.toks
        hash == Len(toks) > 8 /\ toks[9] = W("#")
        beam == IF hash THEN 17 ELSE 10
    IN
    IF \/ ~FieldsOk(toks, Device2Tys)
       \/ Len(toks) < 9
       \/ hash /\ ~FieldsOk(Drop(toks, 9), F6)
       \/ Len(toks) < beam
    THEN Res(st, p, Panic)
    ELSE LET f == Fields(toks, Device2Tys) IN
         Res(NoBlock,
             Push(p, "devcs",
                  [name |-> st.name,
                   quantity |-> st.quantity,
                   p1 |-> Xyz(SubSeq(f, 1, 3)),
                   p2 |-> Xyz(SubSeq(f, 4, 6)),
                   ps |-> IF hash
                          THEN Some(<<Xyz(Fields(Drop(toks, 9), F3)),
                                      Xyz(Fields(Drop(toks, 12), F3))>>)
                          ELSE None,
                   beam_type |-> Str("none", <<toks[beam]>>),
                   state0 |-> f[7],
                   nparams |-> f[8]]),
             Running)

HOffset(st, p, line) ==
    IF ~FieldsOk(line.toks, F3) THEN Res(st, p, Panic)
    ELSE Res(NoBlock, Push(p, "offsets", Xyz(Fields(line.toks, F3))), Running)

HPdim(st, p, line) ==
    IF ~FieldsOk(line.toks, F6 \o F3) THEN Res(st, p, Panic)
    ELSE LET f == Fields(line.toks, F6 \o F3) IN
         Res(NoBlock,
             Push(p, "pdims",
                  [xbar0 |-> f[1], xbar |-> f[2], ybar0 |-> f[3], ybar |-> f[4],
                   zbar0 |-> f[5], zbar |-> f[6], color |-> Rgbf(SubSeq(f, 7, 9))]),
             Running)

\* a GRID arm that skips a record it cannot parse
HGridSkipsBadRecord(st, p, line) ==
    IF ~FieldsOk(line.toks, <<"u", "u", "u", "u">>) THEN Res(NoBlock, p, Running)
    ELSE LET f == Fields(line.toks, <<"u", "u", "u", "u">>) IN
         Res(NoBlock,
             Push(p, "grids",
                  [name |-> st.name, i_bar |-> f[1], j_bar |-> f[2], k_bar |-> f[3],
                   mesh_type |-> f[4]]),
             Running)

HGrid(st, p, line) ==
    IF ~FieldsOk(line.toks, <<"u", "u", "u", "u">>) THEN Res(st, p, Panic)
    ELSE LET f == Fields(line.toks, <<"u", "u", "u", "u">>) IN
         Res(NoBlock,
             Push(p, "grids",
                  [name |-> st.name, i_bar |-> f[1], j_bar |-> f[2], k_bar |-> f[3],
                   mesh_type |-> f[4]]),
             Running)


\* usize subtraction: total_vents - n_dummy_vents overflows when the dummy count
\* is the larger.  A debug build panics at the subtraction; a release build wraps
\* to a count near 2^64, and Vec::with_capacity of it panics (capacity overflow).
\* a Vent1 arm whose subtraction stops at zero
HVent1Saturating(st, p, line) ==
    IF ~FieldsOk(line.toks, <<"u", "u">>) THEN Res(st, p, Panic)
    ELSE Res([mode |-> "Vent2",
              n_vents |-> IF Fields(line.toks, <<"u", "u">>)[2] > Fields(line.toks, <<"u", "u">>)[1]
                          THEN 0
                          ELSE Fields(line.toks, <<"u", "u">>)[1]
                               - Fields(line.toks, <<"u", "u">>)[2],
              first_vents |-> <<>>,
              n_dummy_vents |-> Fields(line.toks, <<"u", "u">>)[2],
              first_dummy_vents |-> <<>>], p, Running)

\* the Vent1 arm. `total_vents - n_dummy_vents` with more dummy vents than vents
\* panics where overflow is checked, and where it is not the wrapped count
\* (at least 2^63) makes Vec::<VentFirstHalf>::with_capacity panic: both
\* builds end in a panic
HVent1(st, p, line) ==
    IF ~FieldsOk(line.toks, <<"u", "u">>) THEN Res(st, p, Panic)
    ELSE LET total_vents == Fields(line.toks, <<"u", "u">>)[1]
             n_dummy_vents == Fields(line.toks, <<"u", "u">>)[2]
         IN IF n_dummy_vents > total_vents THEN Res(st, p, Panic)
            ELSE Res([mode |-> "Vent2",
                      n_vents |-> total_vents - n_dummy_vents,
                      first_vents |-> <<>>,
                      n_dummy_vents |-> n_dummy_vents,
                      first_dummy_vents |-> <<>>], p, Running)

HVent2(st, p, line) ==
    IF ~VentFirstHalfOk(line.toks) THEN Res(st, p, Panic)
    ELSE
    LET f == VentFirstHalf(line.toks)
        first_vents == IF Len(st.first_vents) < st.n_vents
                       THEN Append(st.first_vents, f) ELSE st.first_vents
        first_dummy_vents ==
            IF Len(st.first_vents) >= st.n_vents /\ Len(st.first_dummy_vents) < st.n_dummy_vents
            THEN Append(st.first_dummy_vents, f) ELSE st.first_dummy_vents
    IN
    IF Len(first_vents) < st.n_vents \/ Len(first_dummy_vents) < st.n_dummy_vents
    THEN Res([st EXCEPT !.first_vents = first_vents, !.first_dummy_vents = first_dummy_vents],
             p, Running)
    ELSE Res([mode |-> "Vent3",
              n_vents |-> st.n_vents,
              first_vents |-> first_vents,
              second_vents |-> <<>>,
              n_dummy_vents |-> st.n_dummy_vents,
              first_dummy_vents |-> first_dummy_vents,
              second_dummy_vents |-> <<>>], p, Running)

\* a second-half pass that puts the dummy vents in front
HVent3DummiesFirst(st, p, line) ==
    IF ~VentSecondHalfOk(line.toks) THEN Res(st, p, Panic)
    ELSE
    LET f == VentSecondHalf(line.toks)
        second_vents == IF Len(st.second_vents) < st.n_vents
                        THEN Append(st.second_vents, f) ELSE st.second_vents
        second_dummy_vents ==
            IF Len(st.second_vents) >= st.n_vents /\ Len(st.second_dummy_vents) < st.n_dummy_vents
            THEN Append(st.second_dummy_vents, f) ELSE st.second_dummy_vents
    IN
    IF Len(second_vents) < st.n_vents \/ Len(second_dummy_vents) < st.n_dummy_vents
    THEN Res([st EXCEPT !.second_vents = second_vents,
                        !.second_dummy_vents = second_dummy_vents], p, Running)
    ELSE Res(NoBlock,
             Push(p, "vents",
                  ZipVents(st.first_dummy_vents \o st.first_vents,
                          second_dummy_vents \o second_vents)),
             Running)

HVent3(st, p, line) ==
    IF ~VentSecondHalfOk(line.toks) THEN Res(st, p, Panic)
    ELSE
    LET f == VentSecondHalf(line.toks)
        second_vents == IF Len(st.second_vents) < st.n_vents
                        THEN Append(st.second_vents, f) ELSE st.second_vents
        second_dummy_vents ==
            IF Len(st.second_vents) >= st.n_vents /\ Len(st.second_dummy_vents) < st.n_dummy_vents
            THEN Append(st.second_dummy_vents, f) ELSE st.second_dummy_vents
    IN
    IF Len(second_vents) < st.n_vents \/ Len(second_dummy_vents) < st.n_dummy_vents
    THEN Res([st EXCEPT !.second_vents = second_vents,
                        !.second_dummy_vents = second_dummy_vents], p, Running)
    ELSE Res(NoBlock,
             Push(p, "vents",
                  ZipVents(st.first_vents \o st.first_dummy_vents,
                          second_vents \o second_dummy_vents)),
             Running)

\* the arms of the multi-line text records: strip the space, trim, go on
HText(st, p, line, next, field) ==
    IF ~StrippedOk(line) THEN Res(st, p, Panic)
    ELSE Res([x \in DOMAIN st \cup {field} |->
                 CASE x = "mode" -> next
                   [] x = field -> Trim(Stripped(line))
                   [] OTHER -> st[x]], p, Running)

HSmoke3d1(st, p, line) == HText(st, p, line, "Smoke3d2", "file_name")
HSmoke3d2(st, p, line) == HText(st, p, line, "Smoke3d3", "long_name")
HSmoke3d3(st, p, line) == HText(st, p, line, "Smoke3d4", "short_name")
HSmoke3d4(st, p, line) ==
    IF ~StrippedOk(line) THEN Res(st, p, Panic)
    ELSE Res(NoBlock,
             Push(p, "smoke_3d",
                  [smoke_type |-> st.smoke_type, file_name |-> st.file_name,
                   mesh |-> st.mesh, long_name |-> st.long_name,
                   short_name |-> st.short_name, units |-> Trim(Stripped(line))]),
             Running)

HSlcf1(st, p, line) == HText(st, p, line, "Slcf2", "filename")
HSlcf2(st, p, line) == HText(st, p, line, "Slcf3", "long_name")
HSlcf3(st, p, line) == HText(st, p, line, "Slcf4", "short_name")
HSlcf4(st, p, line) == HText(st, p, line, "Slcf5", "units")
HSlcf5(st, p, line) ==
    Res(NoBlock,
        Push(p, "slcfs",
             [cell_centred |-> st.cell_centred, vs |-> st.vs, filename |-> st.filename,
              long_name |-> st.long_name, short_name |-> st.short_name, units |-> st.units]),
        Running)

HBndf1(st, p, line) == HText(st, p, line, "Bndf2", "filename")
HBndf2(st, p, line) == HText(st, p, line, "Bndf3", "long_name")
HBndf3(st, p, line) == HText(st, p, line, "Bndf4", "short_name")
HBndf4(st, p, line) == HText(st, p, line, "Bndf5", "units")
HBndf5(st, p, line) ==
    Res(NoBlock,
        Push(p, "bndfs",
             [a |-> st.a, b |-> st.b, filename |-> st.filename,
              long_name |-> st.long_name, short_name |-> st.short_name, units |-> st.units]),
        Running)

HPrt51(st, p, line) == HText(st, p, line, "Prt52", "filename")

HPrt52(st, p, line) ==
    IF ~StrippedOk(line) \/ ~ParseOk(Stripped(line), "i") THEN Res(st, p, Panic)
    ELSE Res([mode |-> "Prt53", n |-> st.n, filename |-> st.filename,
              a |-> ParseVal(Stripped(line), "i")], p, Running)

HPrt53(st, p, line) ==
    IF ~StrippedOk(line) \/ ~ParseOk(Stripped(line), "i") THEN Res(st, p, Panic)
    ELSE Res(NoBlock,
             Push(p, "prt5s", [n |-> st.n, filename |-> st.filename, a |-> st.a,
                               b |-> ParseVal(Stripped(line), "i")]),
             Running)

HDeviceAct(st, p, line) ==
    IF ~FieldsOk(line.toks, <<"u", "f", "u">>) THEN Res(st, p, Panic)
    ELSE LET f == Fields(line.toks, <<"u", "f", "u">>) IN
         Res(NoBlock,
             Push(p, "device_acts", [name |-> st.name, n |-> f[3], v |-> f[2], i |-> f[1]]),
             Running)

HEndf(st, p, line) ==
    IF ~StrippedOk(line) THEN Res(st, p, Panic)
    ELSE Res(NoBlock, Set(p, "endf_filename", Trim(Stripped(line))), Running)

HSurfDef(st, p, line) ==
    IF ~StrippedOk(line) THEN Res(st, p, Panic)
    ELSE Res(NoBlock, Set(p, "surf_def", Trim(Stripped(line))), Running)

HXyz(st, p, line) ==
    IF ~StrippedOk(line) THEN Res(st, p, Panic)
    ELSE Res(NoBlock, Push(p, "xyzs", Stripped(line)), Running)

HChidBlock(st, p, line) ==
    IF ~StrippedOk(line) THEN Res(st, p, Panic)
    ELSE Res(NoBlock, Set(p, "chid", Stripped(line)), Running)

HCsvfBlock1(st, p, line) ==
    Res([mode |-> "CsvfBlock2", csv_type |-> Trim(LineStr(line))], p, Running)

\* a CSVF arm that stores the two lines the other way round
HCsvfBlock2Swapped(st, p, line) ==
    Res(NoBlock,
        Push(p, "csvfs", [type_ |-> Trim(LineStr(line)), filename |-> st.csv_type]),
        Running)

HCsvfBlock2(st, p, line) ==
    Res(NoBlock,
        Push(p, "csvfs", [type_ |-> st.csv_type, filename |-> Trim(LineStr(line))]),
        Running)

HInpfBlock(st, p, line) ==
    Res(NoBlock, Set(p, "input_filename", Trim(LineStr(line))), Running)

HObstBlock1(st, p, line) ==
    IF ~ParseOk(LineStr(line), "u") THEN Res(st, p, Panic)
    ELSE Res([mode |-> "ObstBlock2", n |-> ParseVal(LineStr(line), "u"), first_obsts |-> <<>>],
             p, Running)

\* a first-half pass that reads one line more than the count
HObstBlock2OneMore(st, p, line) ==
    IF ~ObstFirstHalfOk(line.toks) THEN Res(st, p, Panic)
    ELSE LET first_obsts == Append(st.first_obsts, ObstFirstHalf(line.toks)) IN
         IF Len(first_obsts) > st.n
         THEN Res([mode |-> "ObstBlock3", n |-> st.n, first_obsts |-> first_obsts,
                   second_obsts |-> <<>>], p, Running)
         ELSE Res([st EXCEPT !.first_obsts = first_obsts], p, Running)

HObstBlock2(st, p, line) ==
    IF ~ObstFirstHalfOk(line.toks) THEN Res(st, p, Panic)
    ELSE LET first_obsts == Append(st.first_obsts, ObstFirstHalf(line.toks)) IN
         IF Len(first_obsts) >= st.n
         THEN Res([mode |-> "ObstBlock3", n |-> st.n, first_obsts |-> first_obsts,
                   second_obsts |-> <<>>], p, Running)
         ELSE Res([st EXCEPT !.first_obsts = first_obsts], p, Running)

HObstBlock3(st, p, line) ==
    IF ~ObstSecondHalfOk(line.toks) THEN Res(st, p, Panic)
    ELSE LET second_obsts == Append(st.second_obsts, ObstSecondHalf(line.toks)) IN
         IF Len(second_obsts) >= st.n
         THEN Res(NoBlock, Push(p, "obsts", ZipObsts(st.first_obsts, second_obsts)),
                  Running)
         ELSE Res([st EXCEPT !.second_obsts = second_obsts], p, Running)

HSurface1(st, p, line) ==
    IF ~StrippedOk(line) THEN Res(st, p, Panic)
    ELSE Res([mode |-> "Surface2", name |-> Trim(Stripped(line))], p, Running)

HSurface2(st, p, line) ==
    IF ~FieldsOk(line.toks, <<"f", "f">>) THEN Res(st, p, Panic)
    ELSE LET f == Fields(line.toks, <<"f", "f">>) IN
         Res([mode |-> "Surface3", name |-> st.name, ignition_temperature |-> f[1],
              emissivity |-> f[2]], p, Running)

Surface3Tys == <<"i", "f", "f", "f", "f", "f", "f">>

HSurface3(st, p, line) ==
    IF ~FieldsOk(line.toks, Surface3Tys) THEN Res(st, p, Panic)
    ELSE LET f == Fields(line.toks, Surface3Tys) IN
         Res([mode |-> "Surface4", name |-> st.name,
              ignition_temperature |-> st.ignition_temperature,
              emissivity |-> st.emissivity, surface_type |-> f[1], t_width |-> f[2],
              t_height |-> f[3], color |-> Rgbaf(SubSeq(f, 4, 7))], p, Running)

\* a Surface4 arm that appends the record and stays in the block
HSurface4KeepsBlock(st, p, line) ==
    IF ~StrippedOk(line) THEN Res(st, p, Panic)
    ELSE Res(st,
             Push(p, "surfs",
                  [name |-> st.name, ignition_temperature |-> st.ignition_temperature,
                   emissivity |-> st.emissivity, surface_type |-> st.surface_type,
                   t_width |-> st.t_width, t_height |-> st.t_height, color |-> st.color,
                   texture_file |-> Trim(Stripped(line))]),
             Running)

HSurface4(st, p, line) ==
    IF ~StrippedOk(line) THEN Res(st, p, Panic)
    ELSE Res(NoBlock,
             Push(p, "surfs",
                  [name |-> st.name, ignition_temperature |-> st.ignition_temperature,
                   emissivity |-> st.emissivity, surface_type |-> st.surface_type,
                   t_width |-> st.t_width, t_height |-> st.t_height, color |-> st.color,
                   texture_file |-> Trim(Stripped(line))]),
             Running)

\* a Trn1 arm that discards no line
HTrn1NoSkip(st, p, line) ==
    IF ~ParseOk(LineStr(line), "u") THEN Res(st, p, Panic)
    ELSE Res([mode |-> "Trn2", axis |-> st.axis, skip_n |-> 0, entries |-> <<>>], p, Running)

HTrn1(st, p, line) ==
    IF ~ParseOk(LineStr(line), "u") THEN Res(st, p, Panic)
    ELSE Res([mode |-> "Trn2", axis |-> st.axis, skip_n |-> ParseVal(LineStr(line), "u"),
              entries |-> <<>>], p, Running)

HTrn2(st, p, line) ==
    IF st.skip_n > 0 THEN Res([st EXCEPT !.skip_n = @ - 1], p, Running)
    ELSE IF ~TrnEntryOk(line.toks) THEN Res(st, p, Panic)
    ELSE Res([st EXCEPT !.entries = Append(@, TrnEntry(line.toks))], p, Running)

\* the second match on the state
Handle(st, p, line) ==
    CASE st.mode = "None" -> HNone(st, p, line)
      [] st.mode = "TitleBlock" -> HTitleBlock(st, p, line)
      [] st.mode = "FdsVersion1" -> HFdsVersion1(st, p, line)
      [] st.mode = "FdsVersion2" -> HFdsVersion2(st, p, line)
      [] st.mode = "Revision" -> HRevision(st, p, line)
      [] st.mode = "NMeshes" -> HNMeshes(st, p, line)
      [] st.mode = "ViewTimes" -> HViewTimes(st, p, line)
      [] st.mode = "Albedo" -> HAlbedo(st, p, line)
      [] st.mode = "IBlank" -> HIBlank(st, p, line)
      [] st.mode = "GVec" -> HGVec(st, p, line)
      [] st.mode \in {"Material", "ClassOfParticles", "Outline", "Pl3d", "HrrPuvCut",
                      "Ramp", "Prop", "CVent"} -> HSkip(st, p, line)
      [] st.mode \in {"CloseVent", "OpenVent", "HideObst", "ShowObst"} -> HEvent(st, p, line)
      [] st.mode = "TOffset" -> HTOffset(st, p, line)
      [] st.mode = "Device1" -> HDevice1(st, p, line)
      [] st.mode = "Device2" -> HDevice2(st, p, line)
      [] st.mode = "Offset" -> HOffset(st, p, line)
      [] st.mode = "Pdim" -> HPdim(st, p, line)
      [] st.mode = "Vent1" -> HVent1(st, p, line)
      [] st.mode = "Vent2" -> HVent2(st, p, line)
      [] st.mode = "Vent3" -> HVent3(st, p, line)
      [] st.mode = "Grid" -> HGrid(st, p, line)
      [] st.mode = "Smoke3d1" -> HSmoke3d1(st, p, line)
      [] st.mode = "Smoke3d2" -> HSmoke3d2(st, p, line)
      [] st.mode = "Smoke3d3" -> HSmoke3d3(st, p, line)
      [] st.mode = "Smoke3d4" -> HSmoke3d4(st, p, line)
      [] st.mode = "Slcf1" -> HSlcf1(st, p, line)
      [] st.mode = "Slcf2" -> HSlcf2(st, p, line)
      [] st.mode = "Slcf3" -> HSlcf3(st, p, line)
      [] st.mode = "Slcf4" -> HSlcf4(st, p, line)
      [] st.mode = "Slcf5" -> HSlcf5(st, p, line)
      [] st.mode = "Bndf1" -> HBndf1(st, p, line)
      [] st.mode = "Bndf2" -> HBndf2(st, p, line)
      [] st.mode = "Bndf3" -> HBndf3(st, p, line)
      [] st.mode = "Bndf4" -> HBndf4(st, p, line)
      [] st.mode = "Bndf5" -> HBndf5(st, p, line)
      [] st.mode = "Prt51" -> HPrt51(st, p, line)
      [] st.mode = "Prt52" -> HPrt52(st, p, line)
      [] st.mode = "Prt53" -> HPrt53(st, p, line)
      [] st.mode = "DeviceAct" -> HDeviceAct(st, p, line)
      [] st.mode = "Endf" -> HEndf(st, p, line)
      [] st.mode = "SurfDef" -> HSurfDef(st, p, line)
      [] st.mode = "Xyz" -> HXyz(st, p, line)
      [] st.mode = "ChidBlock" -> HChidBlock(st, p, line)
      [] st.mode = "SolidHt3d" -> HSolidHt3d(st, p, line)
      [] st.mode = "CsvfBlock1" -> HCsvfBlock1(st, p, line)
      [] st.mode = "CsvfBlock2" -> HCsvfBlock2(st, p, line)
      [] st.mode = "InpfBlock" -> HInpfBlock(st, p, line)
      [] st.mode = "ObstBlock1" -> HObstBlock1(st, p, line)
      [] st.mode = "ObstBlock2" -> HObstBlock2(st, p, line)
      [] st.mode = "ObstBlock3" -> HObstBlock3(st, p, line)
      [] st.mode = "Surface1" -> HSurface1(st, p, line)
      [] st.mode = "Surface2" -> HSurface2(st, p, line)
      [] st.mode = "Surface3" -> HSurface3(st, p, line)
      [] st.mode = "Surface4" -> HSurface4(st, p, line)
      [] st.mode = "Trn1" -> HTrn1(st, p, line)
      [] st.mode = "Trn2" -> HTrn2(st, p, line)

\* an iteration that goes on to the next line once a header has ended a block
IterationSkipsHeader(st, p, line) ==
    LET e == EndBlock(st, p, line) IN
    IF EndBlockLine(line) /\ st # NoBlock /\ e.state = NoBlock THEN e
    ELSE Handle(e.state, e.pending, line)

\* one iteration of the for-loop on a non-empty line
Iteration(st, p, line) ==
    LET e == EndBlock(st, p, line) IN Handle(e.state, e.pending, line)


(***************************************************************************)
(* The input.  A file is a sequence of lines drawn from the alphabet of    *)
(* its family; the families differ in the blocks they hold and in how      *)
(* many records a file may complete.                                       *)
(***************************************************************************)
Keywords ==
    {"TITLE", "FDSVERSION", "REVISION", "CHID", "NMESHES", "VIEWTIMES", "ALBEDO", "IBLANK",
     "GVEC", "MATERIAL", "CLASS_OF_PARTICLES", "OUTLINE", "TOFFSET", "HRRPUVCUT", "RAMP",
     "ENDF", "SURFDEF", "PROP", "DEVICE", "OFFSET", "PDIM", "VENT", "CVENT", "CSVF", "INPF",
     "OBST", "SURFACE", "SOLID_HT3D", "PL3D", "XYZ", "TRNX", "TRNY", "TRNZ"}

CountKeywords == {"SMOKF3D", "SMOKG3D", "PRT5", "CLOSE_VENT", "OPEN_VENT", "HIDE_OBST", "SHOW_OBST"}

TextKeywords == {"GRID", "SLCF", "SLCC", "DEVICE_ACT"}

Unknown == Header(<<W("FOO")>>)
Txt == Body(<<W("a")>>)
TabTxt == Line("tab", <<W("a")>>, "space")
Blank == Body(<<>>)
Nums == Body(Rep(16, U(1)))

HeaderLines ==
    {Header(<<W(k)>>) : k \in Keywords \cup {"PRT5", "GRID", "FOO"}}
    \cup {Header(<<W(k), U(1)>>) : k \in CountKeywords}
    \cup {Header(<<W(k), W("m")>>) : k \in TextKeywords}
    \cup {Header(<<W("BNDF"), U(1), U(1)>>), Line("none", Rep(16, U(1)), "space")}

\* the well-formed body lines of each mode (a text mode takes Txt)
Shape(mode) ==
    CASE mode \in {"ObstBlock1", "Trn1"} -> {Body(<<U(0)>>), Body(<<U(1)>>)}
      [] mode = "Vent1" -> {Body(<<U(1), U(0)>>), Body(<<U(0), U(0)>>), Body(<<U(0), U(1)>>)}
      [] mode \in {"NMeshes", "IBlank", "SolidHt3d", "Prt52", "Prt53"} -> {Body(<<U(1)>>)}
      [] mode = "Albedo" -> {Body(<<Dec(1)>>)}
      [] mode = "Device1" -> {Body(<<W("d"), W("%"), W("q")>>)}
      [] mode = "Device2" ->
             {Nums, Body(Rep(8, U(1)) \o <<W("#")>> \o Rep(6, Dec(1)) \o <<W("%"), W("null")>>)}
      [] mode \in {"ViewTimes", "GVec", "TOffset", "Offset", "Pdim", "Grid", "CloseVent",
                   "OpenVent", "HideObst", "ShowObst", "DeviceAct", "Surface2", "Surface3",
                   "Trn2", "ObstBlock2", "ObstBlock3", "Vent2", "Vent3"} -> {Nums}
      [] OTHER -> {}

\* the full alphabet: every header, and the body lines that are well-formed for
\* the active mode or malformed (a word, a tab in front)
\* (a version or revision block is followed by a version text in column 0, a
\* keyword line, or a text line)
VersionText == Header(<<W("FDS6")>>)
Lines ==
    IF state.mode \in {"FdsVersion1", "FdsVersion2", "Revision"}
    THEN {VersionText, Header(<<W("TITLE")>>), Txt, EmptyLine}
    ELSE HeaderLines \cup {Txt, TabTxt, EmptyLine} \cup Shape(state.mode)

\* the lines of an OBST block: field i of the line with payload v holds 10 i + v
ObstFirstLine(v) ==
    Body([i \in 1..13 |-> CASE i < 7 -> Dec(10 * i + v)
                            [] i = 7 -> Neg(10 * i + v)
                            [] OTHER -> U(10 * i + v)])
ObstSecondLine(v) == Body([i \in 1..8 |-> IF i = 7 THEN Neg(10 * i + v) ELSE U(10 * i + v)])

ObstLines ==
    {Header(<<W("OBST")>>), Unknown, Txt, EmptyLine}
    \cup {Body(<<U(n)>>) : n \in 0..MaxCount}
    \cup {ObstFirstLine(v) : v \in Vals} \cup {ObstSecondLine(v) : v \in Vals}

VentFirstLine(v) == Body([i \in 1..8 |-> IF i < 7 THEN Dec(10 * i + v) ELSE U(10 * i + v)])
VentSecondLine(v) == Body([i \in 1..8 |-> IF i = 7 THEN Neg(10 * i + v) ELSE U(10 * i + v)])

VentLines ==
    {Header(<<W("VENT")>>), Unknown, Txt, EmptyLine}
    \cup {Body(<<U(t), U(d)>>) : t \in 0..MaxCount, d \in 0..MaxCount}
    \cup {VentFirstLine(v) : v \in Vals} \cup {VentSecondLine(v) : v \in Vals}

Ctl == [k |-> "ctl", v |-> 0, w |-> ""]

RequiredLines ==
    {Header(<<W(k)>>) : k \in {"TITLE", "CHID", "INPF", "NMESHES", "FOO"}}
    \cup {Txt, TabTxt, Blank, Body(<<Ctl>>), Body(<<U(1)>>), EmptyLine}

\* the token family: the numeric blocks of a mesh, their well-formed lines, and
\* the lines with one numeric token replaced by a word or with the tokens from
\* one position on missing
BadAt(k) == Body([i \in 1..16 |-> IF i = k THEN W("x") ELSE U(1)])
ShortAt(k) == Body(Rep(k - 1, U(1)))

TokenLines ==
    {Header(<<W(k)>>) : k \in {"OBST", "VENT", "PDIM", "OFFSET", "TRNX"}}
    \cup {Header(<<W("GRID"), W("m")>>), EmptyLine, Nums}
    \cup {Body(<<U(n)>>) : n \in 0..1} \cup {Body(<<U(1), U(0)>>), Body(<<U(1), U(1)>>)}
    \cup {BadAt(k) : k \in {1, 4, 8, 9, 14}} \cup {ShortAt(k) : k \in {4, 9, 14, 15}}

\* the catalog family: CSVF blocks between the required blocks, an unknown block
\* and an INPF block, with two different texts for the body lines
CatalogLines ==
    {Header(<<W(k)>>) : k \in {"CSVF", "TITLE", "CHID", "INPF", "FOO"}}
    \cup {Txt, TabTxt, Body(<<W("b")>>), EmptyLine}

\* the version family: an FDSVERSION block with version texts in column 0 or
\* indented, and the TITLE and CHID blocks that may follow it
VersionLines ==
    {Header(<<W(k)>>) : k \in {"FDSVERSION", "TITLE", "CHID"}}
    \cup {VersionText, Body(<<W("FDS6")>>), Txt, EmptyLine}

Feed ==
    CASE input = "modes" -> Lines
      [] input = "obst" -> ObstLines
      [] input = "vent" -> VentLines
      [] input = "required" -> RequiredLines
      [] input = "tokens" -> TokenLines
      [] input = "catalog" -> CatalogLines
      [] input = "version" -> VersionLines
      [] OTHER -> {}

Quota ==
    CASE input = "modes" -> MaxRecords
      [] input \in {"obst", "vent", "tokens"} -> MaxBlocks
      [] input = "required" -> MaxRequired
      [] input = "catalog" -> MaxRequired + MaxBlocks
      [] input = "version" -> MaxRecords + 1
      [] OTHER -> 0

Lists ==
    {"csvfs", "offsets", "grids", "pdims", "obsts", "vents", "surfs", "events", "prt5s",
     "bndfs", "devcs", "device_acts", "xyzs", "slcfs", "inpfs", "trnx", "trny", "trnz",
     "smoke_3d"}

RECURSIVE SumLen(_, _)
SumLen(p, fields) ==
    IF fields = {} THEN 0
    ELSE LET f == CHOOSE x \in fields : TRUE IN Len(p[f]) + SumLen(p, fields \ {f})

\* the records and scalars the aggregate holds
PendingSize(p) == SumLen(p, DOMAIN p)

\* the files of a family hold at most Quota records (the two lines of an
\* FDSVERSION block make one record) and TRN tables of at most MaxTrn entries
CanRead(line) ==
    /\ (state.mode = "Trn2" /\ ~EndBlockLine(line) /\ state.skip_n = 0)
           => Len(state.entries) < MaxTrn

(***************************************************************************)
(* parse_smv_file.                                                         *)
(***************************************************************************)
\* no call on a slice stream yet
NoCall == [op |-> "", arg |-> 0, kind |-> "", val |-> <<>>]
NoSlice == bytes = <<>> /\ parser = <<>> /\ last = NoCall

InitFamily(f) ==
    /\ NoSlice
    /\ input = f
    /\ state = NoBlock
    /\ pending = PendingSmvFileNew
    /\ stage = "lines"
    /\ outcome = Running
    /\ manifest = None
    /\ block = <<>>
    /\ ended = "no"

\* what the first match did: nothing ("no": a body line, or no active block), the
\* generic reset ("reset"), a reset that appends a list ("push"), or nothing
\* although a block was active ("kept"); "skip" marks an empty line
Ended(st, line) ==
    CASE ~EndBlockLine(line) \/ st = NoBlock -> "no"
      [] EndBlock(st, PendingSmvFileNew, line).state = st -> "kept"
      [] EndBlock(st, PendingSmvFileNew, line).pending # PendingSmvFileNew -> "push"
      [] OTHER -> "reset"

\* `if line.is_empty() { continue; }`
SkipEmpty ==
    /\ stage = "lines" /\ outcome = Running
    /\ \E line \in Feed : IsEmpty(line)
    /\ ended # "skip"
    /\ ended' = "skip"
    /\ UNCHANGED <<input, state, pending, stage, outcome, manifest, block>>
    /\ UNCHANGED sliceVars

\* the lines of the block being read: a header line starts a new block unless
\* the active mode keeps it as content; of the body lines skipped while no block
\* is active only the latest is kept after the header
NextBlock(line) ==
    CASE EndBlockLine(line) /\ EndBlock(state, pending, line).state = NoBlock -> <<line>>
      [] ~EndBlockLine(line) /\ state = NoBlock ->
             IF block = <<>> THEN <<line>> ELSE <<block[1], line>>
      [] OTHER -> Append(block, line)

\* one iteration of the for-loop on a non-empty line
ReadLine ==
    /\ stage = "lines" /\ outcome = Running
    /\ PendingSize(pending) < Quota \/ state.mode = "FdsVersion2"
    /\ \E line \in Feed :
        /\ ~IsEmpty(line)
        /\ CanRead(line)
        /\ LET r == Iteration(state, pending, line) IN
            /\ state' = r.state
            /\ pending' = r.pending
            /\ outcome' = r.outcome
        /\ block' = NextBlock(line)
        /\ ended' = Ended(state, line)
    /\ UNCHANGED <<input, stage, manifest>>
    /\ UNCHANGED sliceVars

\* an end of input that ends the active block as a header line would
EndOfInputEndsBlock ==
    /\ stage = "lines" /\ outcome = Running
    /\ stage' = "final"
    /\ pending' = EndBlock(state, pending, Unknown).pending
    /\ outcome' = TryFrom(pending').outcome
    /\ manifest' = TryFrom(pending').manifest
    /\ block' = <<>>
    /\ ended' = "no"
    /\ UNCHANGED <<input, state>>
    /\ UNCHANGED sliceVars

\* `Ok(pending_file.try_into()?)` after the last line: the parser state is not
\* looked at again
EndOfInput ==
    /\ stage = "lines" /\ outcome = Running
    /\ stage' = "final"
    /\ outcome' = TryFrom(pending).outcome
    /\ manifest' = TryFrom(pending).manifest
    /\ block' = <<>>
    /\ ended' = "no"
    /\ UNCHANGED <<input, state, pending>>
    /\ UNCHANGED sliceVars

Init == InitFamily("modes")
Next == SkipEmpty \/ ReadLine \/ EndOfInput
Spec == Init /\ [][Next]_vars

InitObst == InitFamily("obst")
SpecObst == InitObst /\ [][Next]_vars

InitVent == InitFamily("vent")
SpecVent == InitVent /\ [][Next]_vars

InitRequired == InitFamily("required")
SpecRequired == InitRequired /\ [][Next]_vars

InitTokens == InitFamily("tokens")
SpecTokens == InitTokens /\ [][Next]_vars

InitCatalog == InitFamily("catalog")
SpecCatalog == InitCatalog /\ [][Next]_vars

InitVersion == InitFamily("version")
SpecVersion == InitVersion /\ [][Next]_vars

(***************************************************************************)
(* The finalization family: try_from applied to the aggregates a parse can *)
(* leave behind.  Every per-mesh list holds 0..MaxMesh records, the i-th   *)
(* record of a list carrying the ordinal i in its fields; the required     *)
(* blocks are present, absent, or (title, chid) outside the sub-grammar.   *)
(***************************************************************************)
GoodText == Str("none", <<W("a")>>)
BadText == Str("none", <<Ctl>>)

GridOf(i) == [name |-> Str("space", <<W("m")>>), i_bar |-> i, j_bar |-> 10 + i,
              k_bar |-> 20 + i, mesh_type |-> 0]
ObstsOf(i) ==
    <<SmvObstNew(ObstFirstHalf(ObstFirstLine(i).toks), ObstSecondHalf(ObstSecondLine(i).toks))>>
VentsOf(i) ==
    <<SmvVentNew(VentFirstHalf(VentFirstLine(i).toks), VentSecondHalf(VentSecondLine(i).toks))>>
TrnOf(axis, i) == <<[i |-> 0, f |-> 2 * (100 * axis + i)]>>
PdimOf(i) == [xbar0 |-> 2 * i, xbar |-> 2 * (10 + i), ybar0 |-> 2 * i, ybar |-> 2 * (20 + i),
              zbar0 |-> 2 * i, zbar |-> 2 * (30 + i), color |-> Rgbf(<<0, 0, 0>>)]
OffsetOf(i) == Xyz(<<2 * i, 2 * (10 + i), 2 * (20 + i)>>)

Required ==
    [title : {None, Some(GoodText), Some(BadText)},
     chid : {None, Some(GoodText), Some(BadText)},
     input_filename : {None, Some(GoodText)}]

Aggregate(n, r) ==
    [PendingSmvFileNew EXCEPT
        !.title = r.title, !.chid = r.chid, !.input_filename = r.input_filename,
        !.grids = [i \in 1..n[1] |-> GridOf(i)],
        !.obsts = [i \in 1..n[2] |-> ObstsOf(i)],
        !.vents = [i \in 1..n[3] |-> VentsOf(i)],
        !.trnx = [i \in 1..n[4] |-> TrnOf(1, i)],
        !.trny = [i \in 1..n[5] |-> TrnOf(2, i)],
        !.trnz = [i \in 1..n[6] |-> TrnOf(3, i)],
        !.pdims = [i \in 1..n[7] |-> PdimOf(i)],
        !.offsets = [i \in 1..n[8] |-> OffsetOf(i)]]

\* unbalanced counts come with all required blocks present or all absent
RequiredFor(n) ==
    IF \A i \in 1..8 : n[i] = n[1]
    THEN Required
    ELSE {[title |-> None, chid |-> None, input_filename |-> None],
          [title |-> Some(GoodText), chid |-> Some(GoodText),
           input_filename |-> Some(GoodText)]}

\* the NMESHES values that come with the counts: none or any value when the
\* lists are balanced, none when they are not
NMeshesFor(n) ==
    IF \A i \in 1..8 : n[i] = n[1]
    THEN {None} \cup {Some(k) : k \in 0..(MaxMesh + 1)}
    ELSE {None}

InitFinal ==
    /\ NoSlice
    /\ input = "final"
    /\ state = NoBlock
    /\ \E n \in [1..8 -> 0..MaxMesh] : \E r \in RequiredFor(n) : \E m \in NMeshesFor(n) :
           pending = [Aggregate(n, r) EXCEPT !.n_meshes = m]
    /\ stage = "lines"
    /\ outcome = Running
    /\ manifest = None
    /\ block = <<>>
    /\ ended = "no"

NextFinal == EndOfInput
SpecFinal == InitFinal /\ [][NextFinal]_vars

(***************************************************************************)
(* Properties of finalization.                                             *)
(***************************************************************************)
Returned == stage = "final" /\ outcome = Ok /\ manifest # None

\* the eight counts of the aggregate at the end of the input
Counts ==
    {Len(pending.grids), Len(pending.obsts), Len(pending.vents), Len(pending.trnx),
     Len(pending.trny), Len(pending.trnz), Len(pending.pdims), Len(pending.offsets)}

\* C1: a manifest is returned only if the eight per-mesh counts of the aggregate
\* are equal; if any of them differs the call ends with the error "mesh entries
\* unbalanced" and without a manifest; a returned manifest has one obstruction
\* list, one vent list, three tables, one box and one offset per mesh
C1_BalancedOrError ==
    stage = "final" =>
        /\ manifest # None => Cardinality(Counts) = 1
        /\ Cardinality(Counts) > 1 =>
               outcome = Err("mesh entries unbalanced") /\ manifest = None
        /\ manifest # None =>
               /\ Len(Unwrap(manifest).meshes) = Len(pending.grids)
               /\ \A i \in 1..Len(Unwrap(manifest).meshes) :
                      {"obsts", "vents", "trnx", "trny", "trnz", "dims", "offset"}
                          \subseteq DOMAIN Unwrap(manifest).meshes[i]

\* only the OFFSET count differs, and the call ends with the error
C1_Witness ==
    /\ stage = "final"
    /\ Len(pending.offsets) # Len(pending.grids)
    /\ \A n \in Counts \ {Len(pending.offsets)} : n = Len(pending.grids)
    /\ Len(pending.grids) > 0
    /\ IsSome(pending.title) /\ IsSome(pending.chid) /\ IsSome(pending.input_filename)
    /\ outcome = Err("mesh entries unbalanced")
    /\ manifest = None

\* C2: a returned manifest has as many meshes as GRID records were read, and mesh
\* i is built from the i-th record of each of the eight per-mesh lists
C2_MeshesAligned ==
    Returned =>
        LET meshes == Unwrap(manifest).meshes IN
        /\ Len(meshes) = Len(pending.grids)
        /\ \A i \in 1..Len(meshes) :
            /\ meshes[i].name = pending.grids[i].name
            /\ meshes[i].i_bar = pending.grids[i].i_bar
            /\ meshes[i].j_bar = pending.grids[i].j_bar
            /\ meshes[i].k_bar = pending.grids[i].k_bar
            /\ meshes[i].mesh_type = pending.grids[i].mesh_type
            /\ meshes[i].obsts = pending.obsts[i]
            /\ meshes[i].vents = pending.vents[i]
            /\ meshes[i].trnx = pending.trnx[i]
            /\ meshes[i].trny = pending.trny[i]
            /\ meshes[i].trnz = pending.trnz[i]
            /\ meshes[i].dims.x1 = pending.pdims[i].xbar0
            /\ meshes[i].dims.x2 = pending.pdims[i].xbar
            /\ meshes[i].dims.y1 = pending.pdims[i].ybar0
            /\ meshes[i].dims.y2 = pending.pdims[i].ybar
            /\ meshes[i].dims.z1 = pending.pdims[i].zbar0
            /\ meshes[i].dims.z2 = pending.pdims[i].zbar
            /\ meshes[i].color = pending.pdims[i].color
            /\ meshes[i].offset = pending.offsets[i]

\* a manifest of MaxMesh meshes, the records of which differ from mesh to mesh
C2_Witness ==
    /\ Returned
    /\ Len(Unwrap(manifest).meshes) = MaxMesh
    /\ Unwrap(manifest).meshes[1].obsts # Unwrap(manifest).meshes[MaxMesh].obsts
    /\ Unwrap(manifest).meshes[1].offset # Unwrap(manifest).meshes[MaxMesh].offset

(***************************************************************************)
(* Properties of the outcome of a parse.                                   *)
(***************************************************************************)
\* a line or the finalization failed: an error value was returned or the call
\* ended in a panic
Failed == outcome.kind \in {"err", "panic"}

\* C3: a manifest is yielded only after every line was processed without failure
\* and finalization succeeded; when a line or the finalization fails (with an
\* error value or with a panic) no manifest is yielded, whatever was accumulated
C3_AllOrNothing ==
    /\ stage = "lines" => manifest = None
    /\ Failed => manifest = None
    /\ manifest # None => stage = "final" /\ outcome = Ok
    /\ stage = "final" => (outcome = Ok <=> manifest # None)

\* a line fails after the title was accumulated, and nothing is yielded
C3_Witness ==
    /\ stage = "lines"
    /\ Failed
    /\ IsSome(pending.title)
    /\ manifest = None

\* C10: an input without TITLE, CHID or INPF and with balanced per-mesh lists ends
\* with an error value, not with a panic
C10_MissingBlockIsError ==
    (/\ stage = "final"
     /\ Cardinality(Counts) = 1
     /\ ~(IsSome(pending.title) /\ IsSome(pending.chid) /\ IsSome(pending.input_filename)))
        => outcome.kind = "err"

(***************************************************************************)
(* Properties of one loop iteration.  In a step that reads a non-empty     *)
(* line, the line read is the last line of block'.                         *)
(***************************************************************************)
JustRead == stage = "lines" /\ outcome = Running /\ stage' = "lines" /\ ended' # "skip"
LineRead == block'[Len(block')]
HeaderRead == JustRead /\ EndBlockLine(LineRead)

\* the line read was dispatched as a line read with no block active
DispatchedAfresh ==
    /\ ended' \in {"reset", "push"}
    /\ state' = HNone(NoBlock, pending', LineRead).state
    /\ outcome' = HNone(NoBlock, pending', LineRead).outcome

ZeroCount ==
    \/ state.mode = "ObstBlock2" /\ state.n = 0
    \/ state.mode = "Vent2" /\ state.n_vents = 0 /\ state.n_dummy_vents = 0

\* C4 as stated: in every active mode other than the zero-count counted-list modes
\* and FdsVersion1, FdsVersion2, Revision, a line starting in column 0 resets the
\* mode before it is dispatched (Surface3 included)
C4_EveryOtherModeResets ==
    [][(/\ HeaderRead
        /\ state.mode \notin {"None", "FdsVersion1", "FdsVersion2", "Revision"}
        /\ ~ZeroCount)
           => DispatchedAfresh]_vars

\* C4: in every active mode other than Surface3, FdsVersion1, FdsVersion2 and
\* Revision, a line starting in column 0 resets the mode before it is dispatched,
\* whatever stage the record is in; in Surface3 such a line is read as the third
\* line of the SURFACE record
C4_HeaderResets ==
    [][/\ (/\ HeaderRead
           /\ state.mode \notin {"None", "Surface3", "FdsVersion1", "FdsVersion2", "Revision"})
              => DispatchedAfresh
       /\ (HeaderRead /\ state.mode = "Surface3")
              => /\ ended' = "kept"
                 /\ pending' = pending
                 /\ state' = HSurface3(state, pending, LineRead).state
                 /\ outcome' = HSurface3(state, pending, LineRead).outcome]_vars

\* a header line ended a block that had not completed its record
C4_Witness ==
    /\ stage = "lines"
    /\ ended = "reset"
    /\ PendingSize(pending) = 0
    /\ state.mode = "ChidBlock"
    /\ outcome = Running

\* C5: a header line read in ObstBlock2 with n = 0 (in Vent2 with both counts 0)
\* appends exactly one empty list to the obstruction (vent) lists, changes no
\* other field of the aggregate, and is dispatched with no block active
C5_ZeroCountAppendsEmpty ==
    [][/\ (HeaderRead /\ state.mode = "ObstBlock2" /\ state.n = 0)
              => /\ pending' = [pending EXCEPT !.obsts = Append(@, <<>>)]
                 /\ DispatchedAfresh
       /\ (HeaderRead /\ state.mode = "Vent2" /\ state.n_vents = 0
              /\ state.n_dummy_vents = 0)
              => /\ pending' = [pending EXCEPT !.vents = Append(@, <<>>)]
                 /\ DispatchedAfresh]_vars

\* the header after `VENT / 0 0` appended one empty vent list
C5_Witness ==
    /\ stage = "lines"
    /\ ended = "push"
    /\ pending = [PendingSmvFileNew EXCEPT !.vents = <<<<>>>>]
    /\ outcome = Running

\* C6: in FdsVersion1, FdsVersion2 and Revision a line starting in column 0 is not
\* a terminator: it is stored as fds_version (revision), and the mode advances
\* FdsVersion1 -> FdsVersion2 -> None (Revision -> None)
C6_VersionLinesAreContent ==
    [][HeaderRead =>
        /\ state.mode = "FdsVersion1" =>
               /\ ended' = "kept"
               /\ pending' = [pending EXCEPT !.fds_version = Some(LineStr(LineRead))]
               /\ state' = St("FdsVersion2") /\ outcome' = Running
        /\ state.mode = "FdsVersion2" =>
               /\ ended' = "kept"
               /\ pending' = [pending EXCEPT !.fds_version = Some(LineStr(LineRead))]
               /\ state' = NoBlock /\ outcome' = Running
        /\ state.mode = "Revision" =>
               /\ ended' = "kept"
               /\ pending' = [pending EXCEPT !.revision = Some(LineStr(LineRead))]
               /\ state' = NoBlock /\ outcome' = Running]_vars

\* both lines after FDSVERSION started in column 0 (the second one a keyword)
\* and the second is the stored version
C6_Witness ==
    /\ stage = "lines" /\ outcome = Running
    /\ state = NoBlock
    /\ ended = "kept"
    /\ block = <<Header(<<W("FDSVERSION")>>), VersionText, Header(<<W("TITLE")>>)>>
    /\ pending.fds_version = Some(Str("none", <<W("TITLE")>>))
    /\ pending.title = None

\* the header lines that carry no known keyword
UnknownLines == {Unknown, Line("none", Rep(16, U(1)), "space")}

\* C7: an unknown keyword read with no block active leaves the mode and the
\* aggregate as they are and is not a failure, and so does every body line read
\* with no block active; the parse goes on from the state it had before the block
C7_UnknownBlockSkipped ==
    [][(/\ JustRead
        /\ state = NoBlock
        /\ LineRead \in UnknownLines \/ StartsWithWhitespace(LineRead))
           => /\ state' = NoBlock
              /\ pending' = pending
              /\ outcome' = Running]_vars

\* an unknown keyword and a body line after it were read
C7_Witness ==
    /\ stage = "lines" /\ outcome = Running
    /\ state = NoBlock
    /\ block = <<Unknown, Txt>>
    /\ pending = PendingSmvFileNew

(***************************************************************************)
(* Properties of the two-pass blocks.  In the obstruction and vent         *)
(* families block' holds the header, the count line and the body lines     *)
(* consumed so far, the line just read included.                           *)
(***************************************************************************)
BodyRead == JustRead /\ ~EndBlockLine(LineRead) /\ outcome' = Running /\ Len(block') > 2
Consumed == Len(block') - 2
Val(line, i) == line.toks[i].v
RealAt(line, i) == TokVal(line.toks[i], "f")
IntAt(line, i) == TokVal(line.toks[i], "i")

\* the obstruction made of a first-half line and a second-half line
ObstOf(l1, l2) ==
    [xb_exact |-> Xb([i \in 1..6 |-> RealAt(l1, i)]),
     id |-> IntAt(l1, 7),
     surfaces |-> Surfaces([i \in 1..6 |-> Val(l1, 7 + i)]),
     ijk |-> GridRegion([i \in 1..6 |-> IntAt(l2, i)]),
     colour_index |-> IntAt(l2, 7),
     block_type |-> IntAt(l2, 8)]

\* C8 as stated: in an OBST block with count n, for every n >= 0, the first pass
\* consumes exactly n body lines, the second pass exactly n, and the list
\* appended has n entries, entry k made of the k-th line of each pass
C8_EveryCountPairs ==
    [][(BodyRead /\ state.mode \in {"ObstBlock2", "ObstBlock3"})
          => LET n == Val(block'[2], 1) IN
             /\ Consumed <= 2 * n
             /\ Consumed < n => state'.mode = "ObstBlock2" /\ pending' = pending
             /\ (n <= Consumed /\ Consumed < 2 * n)
                    => state'.mode = "ObstBlock3" /\ pending' = pending
             /\ Consumed = 2 * n
                    => /\ state' = NoBlock
                       /\ pending' = [pending EXCEPT !.obsts =
                              Append(@, [k \in 1..n |-> ObstOf(block'[2 + k], block'[2 + n + k])])]
      ]_vars

\* C8: in an OBST block with count n >= 1 and all body lines present, the first
\* pass consumes exactly the first n body lines, the second pass exactly the next
\* n, and on the last of them one list of n obstructions is appended, entry k
\* made of the k-th first-half line and the k-th second-half line.  With count 0
\* the list appended when a header line follows the count line is empty, but a
\* body line that follows the count line is consumed as a first half and the
\* next one as a second half, and a list of one obstruction is appended
C8_ObstBlockPairs ==
    [][/\ (BodyRead /\ state.mode \in {"ObstBlock2", "ObstBlock3"})
          => LET n == IF Val(block'[2], 1) = 0 THEN 1 ELSE Val(block'[2], 1) IN
             /\ Consumed < n => state'.mode = "ObstBlock2" /\ pending' = pending
             /\ (n <= Consumed /\ Consumed < 2 * n)
                    => state'.mode = "ObstBlock3" /\ pending' = pending
             /\ Consumed >= 2 * n
                    => /\ Consumed = 2 * n
                       /\ state' = NoBlock
                       /\ pending' = [pending EXCEPT !.obsts =
                              Append(@, [k \in 1..n |-> ObstOf(block'[2 + k], block'[2 + n + k])])]
       /\ (HeaderRead /\ state.mode = "ObstBlock2" /\ Len(block) = 2 /\ Val(block[2], 1) = 0)
          => pending' = [pending EXCEPT !.obsts = Append(@, <<>>)]]_vars

\* a block of MaxCount = 2 obstructions with different lines was completed
C8_Witness ==
    /\ stage = "lines" /\ outcome = Running
    /\ state = NoBlock
    /\ Len(block) = 6
    /\ block[1] = Header(<<W("OBST")>>)
    /\ block[2] = Body(<<U(2)>>)
    /\ block[3] # block[4] /\ block[5] # block[6]
    /\ pending.obsts = <<<<ObstOf(block[3], block[5]), ObstOf(block[4], block[6])>>>>

\* the vent made of a first-half line and a second-half line
VentOf(l1, l2) ==
    [xb_exact |-> Xb([i \in 1..6 |-> RealAt(l1, i)]),
     vent_id |-> Val(l1, 7),
     s_num |-> Val(l1, 8),
     texture_origin |-> None,
     ijk |-> GridRegion([i \in 1..6 |-> IntAt(l2, i)]),
     vent_index |-> IntAt(l2, 7),
     vent_type |-> IntAt(l2, 8),
     color |-> None]

\* C9: in a VENT block with total T >= 1 and dummy count D <= T, the first pass
\* consumes exactly T body lines, the first T - D as ordinary and the next D as
\* dummy first halves, the second pass exactly T more with the same split, and on
\* the last of them one list of T vents is appended: the ordinary vents in
\* order, then the dummy vents in order, vent k made of the k-th line of each pass
C9_VentBlockPairs ==
    [][(/\ BodyRead /\ state.mode \in {"Vent2", "Vent3"}
        /\ Val(block'[2], 1) >= 1 /\ Val(block'[2], 2) <= Val(block'[2], 1))
          => LET T == Val(block'[2], 1)
                 D == Val(block'[2], 2)
                 k == IF Consumed < T THEN Consumed ELSE Consumed - T
                 ordinary == Min(k, T - D)
             IN
             /\ Consumed < T
                    => /\ state'.mode = "Vent2" /\ pending' = pending
                       /\ Len(state'.first_vents) = ordinary
                       /\ Len(state'.first_dummy_vents) = k - ordinary
             /\ (T <= Consumed /\ Consumed < 2 * T)
                    => /\ state'.mode = "Vent3" /\ pending' = pending
                       /\ Len(state'.first_vents) = T - D
                       /\ Len(state'.first_dummy_vents) = D
                       /\ Len(state'.second_vents) = ordinary
                       /\ Len(state'.second_dummy_vents) = k - ordinary
             /\ Consumed >= 2 * T
                    => /\ Consumed = 2 * T
                       /\ state' = NoBlock
                       /\ pending' = [pending EXCEPT !.vents =
                              Append(@, [j \in 1..T |-> VentOf(block'[2 + j], block'[2 + T + j])])]]_vars

\* a block of one ordinary and one dummy vent with different lines was completed
C9_Witness ==
    /\ stage = "lines" /\ outcome = Running
    /\ state = NoBlock
    /\ Len(block) = 6
    /\ block[1] = Header(<<W("VENT")>>)
    /\ block[2] = Body(<<U(2), U(1)>>)
    /\ block[3] # block[4] /\ block[5] # block[6]
    /\ pending.vents = <<<<VentOf(block[3], block[5]), VentOf(block[4], block[6])>>>>

(***************************************************************************)
(* Properties of malformed lines.                                          *)
(***************************************************************************)
\* a token of the layout tys is missing from toks or is no literal of its type
Lacks(toks, tys) == \E i \in 1..Len(tys) : i > Len(toks) \/ ~TokOk(toks[i], tys[i])

\* the line lacks a numeric token that the record of the active mode holds (an
\* optional group of trailing fields counts once its first token is there)
MalformedFor(st, line) ==
    LET toks == line.toks IN
    CASE st.mode \in {"ObstBlock1", "Trn1"} -> Lacks(toks, <<"u">>)
      [] st.mode = "Vent1" -> Lacks(toks, <<"u", "u">>)
      [] st.mode = "ObstBlock2" ->
             Lacks(toks, F6 \o <<"i", "u", "u", "u", "u", "u", "u">>)
             \/ (Len(toks) > 13 /\ Lacks(Drop(toks, 13), F3))
      [] st.mode = "ObstBlock3" -> Lacks(toks, I6 \o <<"i", "i">>)
      [] st.mode = "Vent2" ->
             Lacks(toks, F6 \o <<"u", "u">>) \/ (Len(toks) > 8 /\ Lacks(Drop(toks, 8), F3))
      [] st.mode = "Vent3" ->
             Lacks(toks, I6 \o <<"i", "i">>)
             \/ (Len(toks) > 8 /\ Lacks(Drop(toks, 8), <<"f", "f", "f", "f">>))
      [] st.mode = "Grid" -> Lacks(toks, <<"u", "u", "u", "u">>)
      [] st.mode = "Pdim" -> Lacks(toks, F6 \o F3)
      [] st.mode = "Offset" -> Lacks(toks, F3)
      [] st.mode = "Trn2" -> st.skip_n = 0 /\ Lacks(toks, <<"u", "f">>)
      [] OTHER -> FALSE

\* C11: a body line of an OBST, VENT, GRID, PDIM, OFFSET or TRN block (past the
\* skipped lines of a TRN block) that lacks a numeric token or holds a malformed
\* one ends the parse at that line with a failure (an error value or a panic):
\* nothing of the record is stored, no later line is processed, and no manifest
\* is returned
C11_MalformedTokenFatal ==
    [][/\ ~Failed
       /\ (JustRead /\ ~EndBlockLine(LineRead) /\ MalformedFor(state, LineRead))
              => /\ outcome'.kind \in {"err", "panic"}
                 /\ pending' = pending
                 /\ state' = state
                 /\ manifest' = None]_vars

\* the second-half line of an OBST block is malformed after a first half was
\* read: the parse has failed and nothing of the block is stored
C11_Witness ==
    /\ stage = "lines"
    /\ Failed
    /\ state.mode = "ObstBlock3"
    /\ Len(state.first_obsts) = 1
    /\ block[Len(block)] = BadAt(8)
    /\ pending = PendingSmvFileNew
    /\ manifest = None

(***************************************************************************)
(* Empty lines.                                                            *)
(***************************************************************************)
\* C12: an empty line is skipped in every mode: no handler ever receives one,
\* and the step that skips it leaves the mode with all its fields (the declared
\* count, the lines read so far, the number of lines still to skip) and the
\* pending aggregate as they were
C12_EmptyLineSkipped ==
    [][/\ JustRead => LineRead # EmptyLine
       /\ (ended' = "skip" /\ ended # "skip")
              => state' = state /\ pending' = pending /\ outcome' = outcome /\ block' = block]_vars

\* an empty line was skipped between the lines still to be skipped of a TRN block
C12_Witness ==
    /\ ended = "skip"
    /\ state.mode = "Trn2"
    /\ state.skip_n = 1
    /\ outcome = Running

(***************************************************************************)
(* Slice and boundary records.                                             *)
(***************************************************************************)
\* the record held by the mode that follows the four body lines of a block
SliceRecord(st) ==
    [cell_centred |-> st.cell_centred, vs |-> st.vs, filename |-> st.filename,
     long_name |-> st.long_name, short_name |-> st.short_name, units |-> st.units]
BoundaryRecord(st) ==
    [a |-> st.a, b |-> st.b, filename |-> st.filename,
     long_name |-> st.long_name, short_name |-> st.short_name, units |-> st.units]
Holds(list, rec) == \E i \in 1..Len(list) : list[i] = rec

\* C13: once the four body lines of an SLCF, SLCC or BNDF block are consumed the
\* record is kept whatever comes next: after the next header, body line or end
\* of input it is in the pending slice (boundary) list
C13_RecordKeptWhateverFollows ==
    [][(stage = "lines" /\ outcome = Running /\ ended' # "skip")
          => /\ state.mode = "Slcf5" => Holds(pending'.slcfs, SliceRecord(state))
             /\ state.mode = "Bndf5" => Holds(pending'.bndfs, BoundaryRecord(state))]_vars

(***************************************************************************)
(* The catalog of CSV files.                                               *)
(***************************************************************************)
\* C14: the second body line of a CSVF block appends one entry to the catalog,
\* made of the first body line trimmed (type tag) and the second body line
\* trimmed (filename), after the entries of the earlier blocks; no other line
\* changes the catalog, and a returned manifest holds the catalog as it is
C14_OneEntryPerCsvfBlock ==
    [][/\ IF JustRead /\ ~EndBlockLine(LineRead) /\ state.mode = "CsvfBlock2"
          THEN /\ Len(block) = 2
               /\ block[1] = Header(<<W("CSVF")>>)
               /\ pending'.csvfs =
                      Append(pending.csvfs,
                             [type_ |-> Trim(LineStr(block[2])),
                              filename |-> Trim(LineStr(LineRead))])
          ELSE pending'.csvfs = pending.csvfs
       /\ (stage' = "final" /\ outcome' = Ok) => Unwrap(manifest').csvfs = pending.csvfs]_vars

\* a manifest was returned for a file with a CSVF block whose two body lines differ
C14_Witness ==
    /\ Returned
    /\ Len(Unwrap(manifest).csvfs) = 1
    /\ Unwrap(manifest).csvfs[1].type_ # Unwrap(manifest).csvfs[1].filename

(***************************************************************************)
(* The slice parser (src/src/slice_parser.rs).                             *)
(*                                                                         *)
(* The stream is a sequence of bytes; an offset counts from 0, so that the *)
(* byte at offset o is s[o + 1].  An f32 is represented by its bit         *)
(* pattern.  The result of a read is its kind ("ok", "io" for IOError,     *)
(* "reclen" for RecLengthError, "panic"), the value read, and the position *)
(* of the reader afterwards.  A read that runs into the end of the stream  *)
(* consumes what is left of it.                                            *)
(***************************************************************************)
MaxFrames == 2

SliceOk(val, pos) == [kind |-> "ok", val |-> val, pos |-> pos]
IOError(s, pos) == [kind |-> "io", val |-> <<>>, pos |-> IF pos > Len(s) THEN pos ELSE Len(s)]
RecLengthError(pos) == [kind |-> "reclen", val |-> <<>>, pos |-> pos]
SlicePanic(pos) == [kind |-> "panic", val |-> <<>>, pos |-> pos]

\* read_exact of n bytes at offset pos
ReadExact(s, pos, n) == pos + n <= Len(s)

\* u32::from_le_bytes (and the bits of f32::from_le_bytes) of the bytes at pos
U32LE(s, pos) == s[pos + 1] + 256 * s[pos + 2] + 65536 * s[pos + 3] + 16777216 * s[pos + 4]

ParseRecord(s, pos) ==
    IF ~ReadExact(s, pos, 4) THEN IOError(s, pos)
    ELSE LET rec_length == U32LE(s, pos) IN
         IF ~ReadExact(s, pos + 4, rec_length + 4) THEN IOError(s, pos)
         ELSE IF U32LE(s, pos + 4 + rec_length) # rec_length
              THEN SlicePanic(pos + 8 + rec_length)
              ELSE SliceOk(SubSeq(s, pos + 5, pos + 4 + rec_length), pos + 8 + rec_length)

\* a parse_dimensions that takes the bounds of the first axis the other way round
ParseDimensionsSwapped(s, pos) ==
    IF ~ReadExact(s, pos, 4) THEN IOError(s, pos)
    ELSE IF U32LE(s, pos) # 24 THEN RecLengthError(pos + 4)
    ELSE IF ~ReadExact(s, pos + 4, 28) THEN IOError(s, pos)
    ELSE IF U32LE(s, pos + 28) # U32LE(s, pos) THEN RecLengthError(pos + 32)
    ELSE SliceOk([i_min |-> U32LE(s, pos + 8), i_max |-> U32LE(s, pos + 4),
                  j_min |-> U32LE(s, pos + 12), j_max |-> U32LE(s, pos + 16),
                  k_min |-> U32LE(s, pos + 20), k_max |-> U32LE(s, pos + 24)], pos + 32)

ParseDimensions(s, pos) ==
    IF ~ReadExact(s, pos, 4) THEN IOError(s, pos)
    ELSE IF U32LE(s, pos) # 24 THEN RecLengthError(pos + 4)
    ELSE IF ~ReadExact(s, pos + 4, 28) THEN IOError(s, pos)
    ELSE IF U32LE(s, pos + 28) # U32LE(s, pos) THEN RecLengthError(pos + 32)
    ELSE SliceOk([i_min |-> U32LE(s, pos + 4), i_max |-> U32LE(s, pos + 8),
                  j_min |-> U32LE(s, pos + 12), j_max |-> U32LE(s, pos + 16),
                  k_min |-> U32LE(s, pos + 20), k_max |-> U32LE(s, pos + 24)], pos + 32)

\* String::from_utf8(..) is Ok: the streams of the model hold single-byte
\* characters only, and a byte above 127 on its own is not UTF-8
Utf8(b) == \A i \in 1..Len(b) : b[i] < 128

ParseSliceHeader(s, pos) ==
    LET quantity == ParseRecord(s, pos) IN
    IF quantity.kind # "ok" THEN quantity ELSE
    LET short_name == ParseRecord(s, quantity.pos) IN
    IF short_name.kind # "ok" THEN short_name ELSE
    LET units == ParseRecord(s, short_name.pos) IN
    IF units.kind # "ok" THEN units ELSE
    LET dimensions == ParseDimensions(s, units.pos) IN
    IF dimensions.kind # "ok" THEN dimensions
    ELSE IF ~(Utf8(quantity.val) /\ Utf8(short_name.val) /\ Utf8(units.val))
         THEN SlicePanic(dimensions.pos)
         ELSE SliceOk([quantity |-> quantity.val, short_name |-> short_name.val,
                       units |-> units.val, dimensions |-> dimensions.val], dimensions.pos)

(***************************************************************************)
(* The u32 arithmetic of the extents, on the two 16-bit halves of a value  *)
(* (the integers of the model checker are narrower than a u32 product).    *)
(* An operation returns the 32 bits of its result and whether              *)
(* the result did not fit them: a build with overflow checks panics there, *)
(* a build without them goes on with the 32 bits.  A u32 of the model is   *)
(* below 2^31 wherever it is used as a number.                             *)
(***************************************************************************)
LE32(n) == <<n % 256, (n \div 256) % 256, (n \div 65536) % 256, (n \div 16777216) % 256>>

\* max - min + 1 in 32 bits, as two halves of 16 bits: the difference of two
\* values below 2^31 wraps when max < min
Extent(min, max) ==
    [hi |-> (((max - min) \div 65536) + ((((max - min) % 65536) + 1) \div 65536)) % 65536,
     lo |-> (((max - min) % 65536) + 1) % 65536,
     overflow |-> max < min]

\* the low and the high half of the product of two halves x and y
Mul16Lo(x, y) == ((x * (y % 256)) + (((x * (y \div 256)) % 256) * 256)) % 65536
Mul16Hi(x, y) ==
    ((x * (y \div 256)) \div 256)
        + (((x * (y % 256)) + (((x * (y \div 256)) % 256) * 256)) \div 65536)

\* the product whose low half is lo and whose high half is the sum mid
MulCarry(lo, mid, overflow) ==
    [hi |-> (mid % 65536), lo |-> lo, overflow |-> overflow \/ mid >= 65536]

\* a * b: the 32 low bits of the product, and whether a higher bit of the
\* product is not zero or an operand had wrapped
WrappingMul(a, b) ==
    MulCarry(Mul16Lo(a.lo, b.lo),
             Mul16Hi(a.lo, b.lo) + Mul16Lo(a.hi, b.lo) + Mul16Lo(a.lo, b.hi),
             \/ a.overflow \/ b.overflow
             \/ Mul16Hi(a.hi, b.lo) # 0 \/ Mul16Hi(a.lo, b.hi) # 0
             \/ a.hi # 0 /\ b.hi # 0)

\* i_dim * j_dim * k_dim
Extents(d) ==
    WrappingMul(WrappingMul(Extent(d.i_min, d.i_max), Extent(d.j_min, d.j_max)),
                Extent(d.k_min, d.k_max))

\* the value of two halves
Value32(n) == n.hi * 65536 + n.lo

\* the number of values the code goes on with
NValues(d) == Value32(Extents(d))

ParseSliceData(s, pos, n_values) ==
    IF ~ReadExact(s, pos, 4 + 4 * n_values + 4) THEN IOError(s, pos)
    ELSE IF U32LE(s, pos + 4 + 4 * n_values) # U32LE(s, pos)
         THEN RecLengthError(pos + 8 + 4 * n_values)
         ELSE SliceOk([i \in 1..n_values |-> U32LE(s, pos + 4 * i)], pos + 8 + 4 * n_values)

\* a parse_data_set that takes only 4 for the tags of the time record
ParseDataSetChecksLength(s, pos, n_values) ==
    IF ~ReadExact(s, pos, 12) THEN IOError(s, pos)
    ELSE IF U32LE(s, pos + 8) # U32LE(s, pos) \/ U32LE(s, pos) # 4 THEN RecLengthError(pos + 12)
    ELSE LET values == ParseSliceData(s, pos + 12, n_values) IN
         IF values.kind # "ok" THEN values
         ELSE SliceOk([time |-> U32LE(s, pos + 4), values |-> values.val], values.pos)

\* a parse_data_set that trusts the leading tag of the time record
ParseDataSetUnchecked(s, pos, n_values) ==
    IF ~ReadExact(s, pos, 12) THEN IOError(s, pos)
    ELSE LET values == ParseSliceData(s, pos + 12, n_values) IN
         IF values.kind # "ok" THEN values
         ELSE SliceOk([time |-> U32LE(s, pos + 4), values |-> values.val], values.pos)

ParseDataSet(s, pos, n_values) ==
    IF ~ReadExact(s, pos, 12) THEN IOError(s, pos)
    ELSE IF U32LE(s, pos + 8) # U32LE(s, pos) THEN RecLengthError(pos + 12)
    ELSE LET values == ParseSliceData(s, pos + 12, n_values) IN
         IF values.kind # "ok" THEN values
         ELSE SliceOk([time |-> U32LE(s, pos + 4), values |-> values.val], values.pos)

\* a frame length that leaves out the time record
FrameLengthNoTime(header) == 4 + NValues(header.dimensions) * 4 + 4

FrameLength(header) == (4 + 4 + 4) + (4 + NValues(header.dimensions) * 4 + 4)

\* a new that takes the header to end before the trailing tag of the bounds
SliceParserNewBeforeTag(s) ==
    LET header == ParseSliceHeader(s, 0) IN
    IF header.kind # "ok" THEN header
    ELSE SliceOk([pos |-> header.pos, header |-> header.val, current_frame |-> 0,
                  header_length |-> header.pos - 4], header.pos)

\* the parser with the position of its reader
SliceParserNew(s) ==
    LET header == ParseSliceHeader(s, 0) IN
    IF header.kind # "ok" THEN header
    ELSE SliceOk([pos |-> header.pos, header |-> header.val, current_frame |-> 0,
                  header_length |-> header.pos], header.pos)

\* a parse_frame that puts the reader back where it was when the read fails
ParseFrameRollsBack(s, p) ==
    LET frame == ParseDataSet(s, p.pos, NValues(p.header.dimensions)) IN
    [parser |-> [p EXCEPT !.pos = IF frame.kind = "ok" THEN frame.pos ELSE @,
                          !.current_frame = IF frame.kind = "ok" THEN @ + 1 ELSE @],
     res |-> frame]

\* a parse_frame that leaves the counter alone
ParseFrameKeepsCounter(s, p) ==
    LET frame == ParseDataSet(s, p.pos, NValues(p.header.dimensions)) IN
    [parser |-> [p EXCEPT !.pos = frame.pos], res |-> frame]

\* a parse_frame that counts every call
ParseFrameCountsAll(s, p) ==
    LET frame == ParseDataSet(s, p.pos, NValues(p.header.dimensions)) IN
    [parser |-> [p EXCEPT !.pos = frame.pos, !.current_frame = @ + 1], res |-> frame]

\* the parser after the call and the value returned
ParseFrame(s, p) ==
    LET frame == ParseDataSet(s, p.pos, NValues(p.header.dimensions)) IN
    [parser |-> [p EXCEPT !.pos = frame.pos,
                          !.current_frame = IF frame.kind = "ok" THEN @ + 1 ELSE @],
     res |-> frame]

\* the offset of seek_frame; a seek past the end of the stream is no error
SeekFrame(p, frame) == p.header_length + FrameLength(p.header) * frame

\* a get_frame that reads on from where the reader is
GetFrameNoSeek(s, p, frame) == ParseFrame(s, [p EXCEPT !.current_frame = frame])

\* a get_frame that reads frame 0 instead when the read of its frame falls short
GetFrameFallsBack(s, p, frame) ==
    LET r == ParseFrame(s, [p EXCEPT !.pos = SeekFrame(p, frame), !.current_frame = frame]) IN
    IF r.res.kind = "io"
    THEN ParseFrame(s, [p EXCEPT !.pos = SeekFrame(p, 0), !.current_frame = 0])
    ELSE r

\* a get_frame that leaves the counter where it was before the read
GetFrameKeepsCounter(s, p, frame) == ParseFrame(s, [p EXCEPT !.pos = SeekFrame(p, frame)])

GetFrame(s, p, frame) ==
    ParseFrame(s, [p EXCEPT !.pos = SeekFrame(p, frame), !.current_frame = frame])

\* the frames pushed by the loop of parse_slice_file
RECURSIVE FramesFrom(_, _)
FramesFrom(s, p) ==
    LET r == ParseFrame(s, p) IN
    IF r.res.kind # "ok" THEN <<>> ELSE <<r.res.val>> \o FramesFrom(s, r.parser)

\* a parse_slice_file that reports a stream without one whole frame
ParseSliceFileWantsFrame(s) ==
    LET new == SliceParserNew(s) IN
    IF new.kind # "ok" THEN new
    ELSE IF FramesFrom(s, new.val) = <<>> THEN IOError(s, new.pos)
    ELSE SliceOk([header |-> new.val.header, frames |-> FramesFrom(s, new.val)], new.pos)

ParseSliceFile(s) ==
    LET new == SliceParserNew(s) IN
    IF new.kind # "ok" THEN new
    ELSE SliceOk([header |-> new.val.header, frames |-> FramesFrom(s, new.val)], new.pos)

(***************************************************************************)
(* The streams: a well-formed slice file of up to MaxFrames frames whose   *)
(* bounds are inclusive (min <= max), as it is, cut short, with one length  *)
(* tag changed in its low or its second byte, or with both tags of one     *)
(* record of a frame changed alike.                                        *)
(***************************************************************************)
RECURSIVE Words(_)
Words(ns) == IF ns = <<>> THEN <<>> ELSE LE32(Head(ns)) \o Words(Tail(ns))

\* a record with a and b added to its leading and trailing tag
Framed(payload, a, b) == LE32(Len(payload) + a) \o payload \o LE32(Len(payload) + b)

\* what is added to tag j when the tags of bad are the changed ones
Off(j, bad, delta) == IF j \in bad THEN delta ELSE 0

FrameBytes(f, n_values, bad, delta) ==
    Framed(LE32(f), Off(4 * f + 5, bad, delta), Off(4 * f + 6, bad, delta))
    \o Framed(Words([i \in 1..n_values |-> 10 * f + i]),
              Off(4 * f + 7, bad, delta), Off(4 * f + 8, bad, delta))

RECURSIVE FramesBytes(_, _, _, _)
FramesBytes(n, n_values, bad, delta) ==
    IF n = 0 THEN <<>>
    ELSE FramesBytes(n - 1, n_values, bad, delta) \o FrameBytes(n, n_values, bad, delta)

Texts == {<<>>, <<84>>}
Bounds ==
    {[i_min |-> 0, i_max |-> 0, j_min |-> 0, j_max |-> 0, k_min |-> 0, k_max |-> 0],
     [i_min |-> 1, i_max |-> 2, j_min |-> 3, j_max |-> 3, k_min |-> 4, k_max |-> 4]}

Stream(q, d, n, bad, delta) ==
    Framed(q, Off(1, bad, delta), Off(2, bad, delta))
    \o Framed(<<116>>, Off(3, bad, delta), Off(4, bad, delta))
    \o Framed(<<67>>, Off(5, bad, delta), Off(6, bad, delta))
    \o Framed(Words(<<d.i_min, d.i_max, d.j_min, d.j_max, d.k_min, d.k_max>>),
              Off(7, bad, delta), Off(8, bad, delta))
    \o FramesBytes(n, NValues(d), bad, delta)

InitSlice ==
    /\ input = "slice"
    /\ state = NoBlock
    /\ pending = PendingSmvFileNew
    /\ stage = "bytes"
    /\ outcome = Running
    /\ manifest = None
    /\ block = <<>>
    /\ ended = "no"
    /\ parser = None
    /\ last = NoCall
    /\ \E q \in Texts : \E d \in Bounds : \E n \in 0..MaxFrames :
           \/ \E bad \in 0..(8 + 4 * n) : \E delta \in {1, 256} :
                  bytes = Stream(q, d, n, {bad}, delta)
           \/ \E r \in 5..(4 + 2 * n) : \E delta \in {1, 256} :
                  bytes = Stream(q, d, n, {2 * r - 1, 2 * r}, delta)
           \/ \E cut \in 0..Len(Stream(q, d, n, {}, 0)) :
                  bytes = SubSeq(Stream(q, d, n, {}, 0), 1, cut)

Call(op, arg, r) == [op |-> op, arg |-> arg, kind |-> r.kind, val |-> r.val]

\* SliceParser::new(input)
New ==
    /\ stage = "bytes" /\ last = NoCall
    /\ LET r == SliceParserNew(bytes) IN
        /\ parser' = IF r.kind = "ok" THEN Some(r.val) ELSE None
        /\ last' = Call("new", 0, r)
    /\ UNCHANGED <<bytes, smvVars>>

\* parser.parse_frame(), the body of Iterator::next, while the counter is at
\* most MaxFrames
NextFrame ==
    /\ stage = "bytes" /\ parser # None /\ last.kind # "panic"
    /\ Unwrap(parser).current_frame <= MaxFrames
    /\ LET r == ParseFrame(bytes, Unwrap(parser)) IN
        /\ parser' = Some(r.parser)
        /\ last' = Call("parse_frame", 0, r.res)
    /\ UNCHANGED <<bytes, smvVars>>

\* parser.get_frame(frame)
GetFrameAt ==
    /\ stage = "bytes" /\ parser # None /\ last.kind # "panic"
    /\ \E frame \in 0..MaxFrames :
        LET r == GetFrame(bytes, Unwrap(parser), frame) IN
        /\ parser' = Some(r.parser)
        /\ last' = Call("get_frame", frame, r.res)
    /\ UNCHANGED <<bytes, smvVars>>

\* a seek_next_frame that moves the start of the frames along with the reader
SeekNextFrameMovesHeader(p) ==
    [p EXCEPT !.pos = @ + FrameLength(p.header), !.header_length = @ + FrameLength(p.header)]

\* reader.seek_relative(frame_length)
SeekNextFrame(p) == [p EXCEPT !.pos = @ + FrameLength(p.header)]

\* a seek_frame that sets the counter to the frame it seeks
SeekToSetsCounter ==
    /\ stage = "bytes" /\ parser # None /\ last.kind # "panic"
    /\ \E frame \in 0..MaxFrames :
        /\ parser' = Some([Unwrap(parser) EXCEPT !.pos = SeekFrame(Unwrap(parser), frame),
                                                 !.current_frame = frame])
        /\ last' = Call("seek_frame", frame,
                        SliceOk([offset |-> SeekFrame(Unwrap(parser), frame)],
                                SeekFrame(Unwrap(parser), frame)))
    /\ UNCHANGED <<bytes, smvVars>>

\* parser.seek_frame(frame), which returns the offset
SeekTo ==
    /\ stage = "bytes" /\ parser # None /\ last.kind # "panic"
    /\ \E frame \in 0..MaxFrames :
        /\ parser' = Some([Unwrap(parser) EXCEPT !.pos = SeekFrame(Unwrap(parser), frame)])
        /\ last' = Call("seek_frame", frame,
                        SliceOk([offset |-> SeekFrame(Unwrap(parser), frame)],
                                SeekFrame(Unwrap(parser), frame)))
    /\ UNCHANGED <<bytes, smvVars>>

\* parser.seek_next_frame(), while the reader is before frame MaxFrames
SeekNext ==
    /\ stage = "bytes" /\ parser # None /\ last.kind # "panic"
    /\ Unwrap(parser).pos < SeekFrame(Unwrap(parser), MaxFrames)
    /\ parser' = Some(SeekNextFrame(Unwrap(parser)))
    /\ last' = Call("seek_next_frame", 0, SliceOk(<<>>, SeekNextFrame(Unwrap(parser)).pos))
    /\ UNCHANGED <<bytes, smvVars>>

\* parse_slice_file(&mut input) on a stream at offset 0
WholeFile ==
    /\ stage = "bytes" /\ last = NoCall
    /\ last' = Call("parse_slice_file", 0, ParseSliceFile(bytes))
    /\ UNCHANGED <<bytes, parser, smvVars>>

\* parser.frame_length()
FrameLengthCall ==
    /\ stage = "bytes" /\ parser # None /\ last.kind # "panic"
    /\ last' = Call("frame_length", 0,
                    SliceOk([length |-> FrameLength(Unwrap(parser).header)], Unwrap(parser).pos))
    /\ UNCHANGED <<bytes, parser, smvVars>>

\* a call that computes the extents, in a build with overflow checks, for a
\* header whose extents do not fit 32 bits
ArithmeticPanic ==
    /\ stage = "bytes" /\ parser # None /\ last.kind # "panic"
    /\ Extents(Unwrap(parser).header.dimensions).overflow
    /\ \E op \in {"parse_frame", "frame_length", "get_frame", "seek_frame", "seek_next_frame"} :
           last' = Call(op, 0, SlicePanic(Unwrap(parser).pos))
    /\ UNCHANGED <<bytes, parser, smvVars>>

\* the extents family: headers whose bounds run up to 65535 on each axis or are
\* the wrong way round on it, followed by a frame when a frame is a few values
Axes == {<<0, 0>>, <<0, 1>>, <<0, 255>>, <<0, 65535>>, <<1, 0>>}

InitExtents ==
    /\ input = "extents"
    /\ state = NoBlock
    /\ pending = PendingSmvFileNew
    /\ stage = "bytes"
    /\ outcome = Running
    /\ manifest = None
    /\ block = <<>>
    /\ ended = "no"
    /\ parser = None
    /\ last = NoCall
    /\ \E i \in Axes : \E j \in Axes : \E k \in Axes : \E n \in 0..1 :
        LET d == [i_min |-> i[1], i_max |-> i[2], j_min |-> j[1], j_max |-> j[2],
                  k_min |-> k[1], k_max |-> k[2]]
        IN bytes = Stream(<<>>, d, IF NValues(d) <= 2 THEN n ELSE 0, {}, 0)

NextExtents == New \/ NextFrame \/ FrameLengthCall \/ ArithmeticPanic
SpecExtents == InitExtents /\ [][NextExtents]_vars

NextSlice == New \/ NextFrame \/ GetFrameAt \/ SeekTo \/ SeekNext \/ WholeFile
SpecSlice == InitSlice /\ [][NextSlice]_vars

(***************************************************************************)
(* Properties of the slice header.                                         *)
(***************************************************************************)
\* the record at offset pos is there with both its tags, which differ / agree
TagsDiffer(s, pos) ==
    /\ ReadExact(s, pos, 4)
    /\ ReadExact(s, pos, 8 + U32LE(s, pos))
    /\ U32LE(s, pos + 4 + U32LE(s, pos)) # U32LE(s, pos)
TagsAgree(s, pos) ==
    /\ ReadExact(s, pos, 4)
    /\ ReadExact(s, pos, 8 + U32LE(s, pos))
    /\ U32LE(s, pos + 4 + U32LE(s, pos)) = U32LE(s, pos)
After(s, pos) == pos + 8 + U32LE(s, pos)

\* the first text record of the header whose tags do not agree has two tags
\* that differ
TextTagsDiffer(s) ==
    \/ TagsDiffer(s, 0)
    \/ TagsAgree(s, 0) /\ TagsDiffer(s, After(s, 0))
    \/ TagsAgree(s, 0) /\ TagsAgree(s, After(s, 0)) /\ TagsDiffer(s, After(s, After(s, 0)))

\* C15: when the two length tags of the quantity, short-name or units record
\* differ, SliceParser::new and parse_slice_file return an error value: they do
\* not panic and return no parser and no slice file
C15_TextTagMismatchIsError ==
    (last.op \in {"new", "parse_slice_file"} /\ TextTagsDiffer(bytes))
        => last.kind \in {"io", "reclen"} /\ parser = None

(***************************************************************************)
(* Properties of the frames.                                               *)
(***************************************************************************)
\* the step is a call of parse_frame or get_frame on the parser
FrameCall == parser # None /\ parser' # None /\ last'.op \in {"parse_frame", "get_frame"}

\* the offset the call reads from, and the number of values of a frame
ReadFrom ==
    IF last'.op = "get_frame"
    THEN Unwrap(parser).header_length + (20 + 4 * NValues(Unwrap(parser).header.dimensions)) * last'.arg
    ELSE Unwrap(parser).pos
NumValues == NValues(Unwrap(parser).header.dimensions)

\* the tags of the time record at pos, and those of the payload record after it
TimeTagsThere(s, pos) == pos + 12 <= Len(s)
TimeTagsDiffer(s, pos) == TimeTagsThere(s, pos) /\ U32LE(s, pos) # U32LE(s, pos + 8)
PayloadTagsThere(s, pos, n) == pos + 20 + 4 * n <= Len(s)
PayloadTagsDiffer(s, pos, n) ==
    PayloadTagsThere(s, pos, n) /\ U32LE(s, pos + 12) # U32LE(s, pos + 16 + 4 * n)

\* C16: when the two tags of the time record of the frame read differ, or the
\* two tags of its payload record differ, parse_frame and get_frame return
\* RecLengthError and no Frame; they return a Frame only when the tags of both
\* records are there and agree, and the Frame holds the time and the values
\* between them
C16_FrameTagsChecked ==
    [][FrameCall =>
        /\ (TimeTagsDiffer(bytes, ReadFrom) \/ PayloadTagsDiffer(bytes, ReadFrom, NumValues))
               => last'.kind = "reclen" /\ last'.val = <<>>
        /\ last'.kind = "ok"
               => /\ PayloadTagsThere(bytes, ReadFrom, NumValues)
                  /\ ~TimeTagsDiffer(bytes, ReadFrom)
                  /\ ~PayloadTagsDiffer(bytes, ReadFrom, NumValues)
                  /\ last'.val = [time |-> U32LE(bytes, ReadFrom + 4),
                                  values |-> [i \in 1..NumValues |->
                                                 U32LE(bytes, ReadFrom + 12 + 4 * i)]]]_vars

\* get_frame(1) returned RecLengthError for a frame whose time record has two
\* different tags, after the twelve bytes of that record
C16_Witness ==
    /\ last.op = "get_frame" /\ last.arg = 1 /\ last.kind = "reclen"
    /\ parser # None
    /\ Unwrap(parser).pos = SeekFrame(Unwrap(parser), 1) + 12
    /\ TimeTagsDiffer(bytes, SeekFrame(Unwrap(parser), 1))

\* the offset of the index-bounds record behind three text records
BoundsAt(s) == After(s, After(s, After(s, 0)))
TextsAgree(s) == TagsAgree(s, 0) /\ TagsAgree(s, After(s, 0)) /\ TagsAgree(s, After(s, After(s, 0)))

\* C17: opening fails with an error and returns no parser when the leading tag
\* of the fourth header record is not 24 or its trailing tag differs from the
\* leading one; when opening succeeds the six bounds are the six little-endian
\* 32-bit values of that record in the order i_min, i_max, j_min, j_max, k_min,
\* k_max
C17_BoundsRecord ==
    last.op \in {"new", "parse_slice_file"} =>
        /\ (/\ TextsAgree(bytes)
            /\ ReadExact(bytes, BoundsAt(bytes), 4)
            /\ \/ U32LE(bytes, BoundsAt(bytes)) # 24
               \/ /\ ReadExact(bytes, BoundsAt(bytes), 32)
                  /\ U32LE(bytes, BoundsAt(bytes) + 28) # U32LE(bytes, BoundsAt(bytes)))
               => last.kind = "reclen" /\ parser = None
        /\ last.kind = "ok"
               => /\ TextsAgree(bytes)
                  /\ U32LE(bytes, BoundsAt(bytes)) = 24
                  /\ U32LE(bytes, BoundsAt(bytes) + 28) = 24
                  /\ last.val.header.dimensions =
                         [i_min |-> U32LE(bytes, BoundsAt(bytes) + 4),
                          i_max |-> U32LE(bytes, BoundsAt(bytes) + 8),
                          j_min |-> U32LE(bytes, BoundsAt(bytes) + 12),
                          j_max |-> U32LE(bytes, BoundsAt(bytes) + 16),
                          k_min |-> U32LE(bytes, BoundsAt(bytes) + 20),
                          k_max |-> U32LE(bytes, BoundsAt(bytes) + 24)]

\* new failed on a bounds record whose leading tag is 24 and whose trailing tag
\* is not
C17_Witness ==
    /\ last.op = "new" /\ last.kind = "reclen" /\ parser = None
    /\ TextsAgree(bytes)
    /\ ReadExact(bytes, BoundsAt(bytes), 32)
    /\ U32LE(bytes, BoundsAt(bytes)) = 24
    /\ U32LE(bytes, BoundsAt(bytes) + 28) = 24 + 256

\* C18: parse_frame adds exactly 1 to current_frame when it returns a Frame and
\* leaves current_frame as it was when it returns an error
C18_CounterFollowsSuccess ==
    [][(FrameCall /\ last'.op = "parse_frame") =>
        /\ last'.kind \in {"ok", "io", "reclen"}
        /\ last'.kind = "ok"
               => Unwrap(parser').current_frame = Unwrap(parser).current_frame + 1
        /\ last'.kind # "ok"
               => Unwrap(parser').current_frame = Unwrap(parser).current_frame]_vars

\* the second parse_frame of a parser failed on the tags of the payload record
\* after the first had returned a Frame
C18_Witness ==
    /\ last.op = "parse_frame" /\ last.kind = "reclen"
    /\ parser # None
    /\ Unwrap(parser).current_frame = 1
    /\ Unwrap(parser).pos = Unwrap(parser).header_length + 2 * FrameLength(Unwrap(parser).header)

(***************************************************************************)
(* Sequential and random access.                                           *)
(***************************************************************************)
\* k calls of parse_frame one after the other: whether all of them returned a
\* Frame, and the parser after the last call made
RECURSIVE Sequential(_, _, _)
Sequential(s, p, k) ==
    IF k = 0 THEN [ok |-> TRUE, parser |-> p]
    ELSE LET r == ParseFrame(s, p) IN
         IF r.res.kind # "ok" THEN [ok |-> FALSE, parser |-> r.parser]
         ELSE Sequential(s, r.parser, k - 1)

\* the parser that SliceParser::new returns for the stream of an open parser
Fresh == SliceParserNew(bytes).val

\* C19: for every k for which k calls of parse_frame on a freshly opened parser
\* all return a Frame, the offset that get_frame(k) seeks to,
\* header_length() + k * frame_length(), is the position of the reader after
\* those k calls
C19_SeekOffsetIsSequentialPosition ==
    parser # None =>
        \A k \in 0..MaxFrames :
            Sequential(bytes, Fresh, k).ok
                => SeekFrame(Unwrap(parser), k) = Sequential(bytes, Fresh, k).parser.pos

\* a parser that has read all the frames of a stream of MaxFrames frames one
\* after the other stands at the offset of a seek to frame MaxFrames
C19_Witness ==
    /\ parser # None
    /\ last.op = "parse_frame" /\ last.kind = "ok"
    /\ Sequential(bytes, Fresh, MaxFrames).ok
    /\ Unwrap(parser) = Sequential(bytes, Fresh, MaxFrames).parser
    /\ Unwrap(parser).pos = SeekFrame(Unwrap(parser), MaxFrames)
    /\ Unwrap(parser).pos = Len(bytes)

\* C20: for every k below the number of frames of the whole-file sequential
\* parse, get_frame(k) returns the k-th frame of that parse (counting from 0),
\* time and values, whatever calls were made on the parser before
C20_RandomAccessIsSequential ==
    [][(FrameCall /\ last'.op = "get_frame"
            /\ last'.arg < Len(ParseSliceFile(bytes).val.frames))
          => /\ last'.kind = "ok"
             /\ last'.val = ParseSliceFile(bytes).val.frames[last'.arg + 1]]_vars

\* get_frame(0) returned the first of the two or more frames of the whole-file
\* parse, which differs from the second
C20_Witness ==
    /\ parser # None
    /\ last.op = "get_frame" /\ last.arg = 0 /\ last.kind = "ok"
    /\ Len(ParseSliceFile(bytes).val.frames) >= 2
    /\ last.val = ParseSliceFile(bytes).val.frames[1]
    /\ last.val # ParseSliceFile(bytes).val.frames[2]

(***************************************************************************)
(* The header of an open parser.                                           *)
(***************************************************************************)
\* the number of values of a frame, from the six bounds in the stream
ValuesPerFrame(s) ==
    (U32LE(s, BoundsAt(s) + 8) - U32LE(s, BoundsAt(s) + 4) + 1)
    * (U32LE(s, BoundsAt(s) + 16) - U32LE(s, BoundsAt(s) + 12) + 1)
    * (U32LE(s, BoundsAt(s) + 24) - U32LE(s, BoundsAt(s) + 20) + 1)

\* C21: frame_length() is 12 + 8 + 4 * N for the extents of the header read at
\* open, at every call: whatever calls of parse_frame, get_frame, seek_frame and
\* seek_next_frame were made, and whether they failed or not, the header and
\* header_length() of the parser are those that new returned
C21_FrameLengthFixed ==
    parser # None =>
        /\ Unwrap(parser).header = Fresh.header
        /\ Unwrap(parser).header_length = Fresh.header_length
        /\ FrameLength(Unwrap(parser).header) = 12 + 8 + 4 * ValuesPerFrame(bytes)

\* a parser whose reader was moved by seek_next_frame after a read that failed
\* on the tags of a frame
C21_Witness ==
    /\ parser # None
    /\ last.op = "seek_next_frame"
    /\ Unwrap(parser).current_frame = 1
    /\ Unwrap(parser).pos = SeekFrame(Unwrap(parser), 1) + 12 + FrameLength(Unwrap(parser).header)
    /\ FrameLength(Unwrap(parser).header) = 28

(***************************************************************************)
(* The extents against the product of the integers.                        *)
(***************************************************************************)
Digit(a, i) == IF i \in 1..Len(a) THEN a[i] ELSE 0

\* the sum of the products of the digits of a and b that make digit k of a * b
RECURSIVE Column(_, _, _, _)
Column(a, b, k, i) ==
    IF i = 0 THEN 0 ELSE a[i] * Digit(b, k + 1 - i) + Column(a, b, k, i - 1)

RECURSIVE MulFrom(_, _, _, _)
MulFrom(a, b, k, carry) ==
    IF k > Len(a) + Len(b) THEN <<>>
    ELSE LET t == Column(a, b, k, Len(a)) + carry
         IN <<t % 256>> \o MulFrom(a, b, k + 1, t \div 256)

\* all the digits, base 256, of the product of the integers a and b
MulDigits(a, b) == MulFrom(a, b, 1, 0)

Ordered(d) == d.i_min <= d.i_max /\ d.j_min <= d.j_max /\ d.k_min <= d.k_max

\* the twelve digits of (i_max-i_min+1) * (j_max-j_min+1) * (k_max-k_min+1)
Product(d) ==
    MulDigits(MulDigits(LE32(d.i_max - d.i_min + 1), LE32(d.j_max - d.j_min + 1)),
              LE32(d.k_max - d.k_min + 1))

Wide(a) == a \o <<0, 0, 0, 0, 0, 0, 0, 0>>

\* C22: for a header with i_min <= i_max, j_min <= j_max and k_min <= k_max
\* the 32-bit computation of the extents and of their product does not wrap and
\* does not fault, and the N of frame_length() and the number of values a
\* frame is read with are the product of the three extents
C22_ExtentsNeverWrap ==
    (parser # None /\ Ordered(Unwrap(parser).header.dimensions)) =>
        /\ ~Extents(Unwrap(parser).header.dimensions).overflow
        /\ last.kind # "panic"
        /\ Wide(LE32(NValues(Unwrap(parser).header.dimensions)))
               = Product(Unwrap(parser).header.dimensions)
        /\ (last.op = "frame_length" /\ last.kind = "ok")
               => Wide(LE32((last.val.length - 20) \div 4))
                      = Product(Unwrap(parser).header.dimensions)
        /\ (last.op = "parse_frame" /\ last.kind = "ok")
               => Wide(LE32(Len(last.val.values))) = Product(Unwrap(parser).header.dimensions)

(***************************************************************************)
(* The whole-file read.                                                    *)
(***************************************************************************)
\* the three text records and the bounds record are there with their tags
HeaderDecodes(s) ==
    /\ TextsAgree(s)
    /\ ReadExact(s, BoundsAt(s), 32)
    /\ U32LE(s, BoundsAt(s)) = 24
    /\ U32LE(s, BoundsAt(s) + 28) = 24

\* the frame that call k + 1 of parse_frame on a fresh parser returns
FrameOf(k) == ParseFrame(bytes, Sequential(bytes, Fresh, k).parser).res

\* C23: once the header is decoded parse_slice_file returns Ok, with the frames
\* that parse_frame returned before its first failure, in the order of the
\* file; the failure itself (a short read, tags that differ) is not reported;
\* parse_slice_file fails only when the header cannot be decoded
C23_WholeFileKeepsPrefix ==
    last.op = "parse_slice_file" =>
        /\ HeaderDecodes(bytes) <=> last.kind = "ok"
        /\ last.kind = "ok" =>
            /\ Sequential(bytes, Fresh, Len(last.val.frames)).ok
            /\ FrameOf(Len(last.val.frames)).kind \in {"io", "reclen"}
            /\ \A k \in 1..Len(last.val.frames) :
                   FrameOf(k - 1).kind = "ok" /\ last.val.frames[k] = FrameOf(k - 1).val
            /\ last.val.header = Fresh.header

\* parse_slice_file returned one frame of a stream whose second frame has a
\* time record with two different tags
C23_Witness ==
    /\ last.op = "parse_slice_file" /\ last.kind = "ok"
    /\ Len(last.val.frames) = 1
    /\ TimeTagsDiffer(bytes, BoundsAt(bytes) + 32 + FrameLength(last.val.header))

(***************************************************************************)
(* The length of the header.                                               *)
(***************************************************************************)
\* C24: header_length() is the offset just after the trailing tag of the
\* bounds record, which for a stream read from offset 0 is
\* (8 + len(quantity)) + (8 + len(short name)) + (8 + len(units)) + 32, and
\* frame 0 starts at that offset: a freshly opened parser stands there, and
\* get_frame(0) reads the frame there
C24_HeaderLength ==
    parser # None =>
        LET p == Unwrap(parser)
            h == p.header
        IN  /\ p.header_length = BoundsAt(bytes) + 32
            /\ p.header_length = (8 + Len(h.quantity)) + (8 + Len(h.short_name))
                                     + (8 + Len(h.units)) + 32
            /\ Fresh.pos = p.header_length
            /\ SeekFrame(p, 0) = p.header_length
            /\ GetFrame(bytes, p, 0).res
                   = ParseDataSet(bytes, p.header_length, NumValues)

\* a stream with a quantity of one byte was opened, and frame 0 was then read
\* at offset 59
C24_Witness ==
    /\ parser # None
    /\ Len(Unwrap(parser).header.quantity) = 1
    /\ Unwrap(parser).header_length = 59
    /\ last.op = "get_frame" /\ last.arg = 0 /\ last.kind = "ok"

(***************************************************************************)
(* Random access past the end of the stream.                               *)
(***************************************************************************)
\* the stream ends before the end of frame k
EndsBefore(k) ==
    Len(bytes) < Unwrap(parser).header_length + (k + 1) * FrameLength(Unwrap(parser).header)

C26_ParserAfterGetFrame ==
    (last.op = "get_frame" /\ last.kind = "ok") =>
        LET p == Unwrap(parser)
            k == last.arg
        IN  /\ p.current_frame = k + 1
            /\ p.pos = p.header_length + (k + 1) * FrameLength(p.header)
            /\ ParseFrame(bytes, p).res = ParseDataSet(bytes, SeekFrame(p, k + 1), NumValues)
            /\ Sequential(bytes, Fresh, k + 1).ok => p = Sequential(bytes, Fresh, k + 1).parser
            /\ Sequential(bytes, Fresh, k + 2).ok
                   => ParseFrame(bytes, p) = ParseFrame(bytes, Sequential(bytes, Fresh, k + 1).parser)

\* get_frame(0) returned frame 0 of a stream of two whole frames, and the next
\* parse_frame would return frame 1
C26_Witness ==
    /\ last.op = "get_frame" /\ last.arg = 0 /\ last.kind = "ok"
    /\ Sequential(bytes, Fresh, 2).ok
    /\ ParseFrame(bytes, Unwrap(parser)).res.kind = "ok"
    /\ ParseFrame(bytes, Unwrap(parser)).parser.current_frame = 2

(***************************************************************************)
(* Records read over several body lines.                                   *)
(***************************************************************************)
\* the stage that follows each stage but the last of a multi-stage record
NextStage(mode) ==
    CASE mode = "Surface1" -> "Surface2"
      [] mode = "Surface2" -> "Surface3"
      [] mode = "Surface3" -> "Surface4"
      [] mode = "Prt51" -> "Prt52"
      [] mode = "Prt52" -> "Prt53"
      [] mode = "Device1" -> "Device2"
      [] mode = "Smoke3d1" -> "Smoke3d2"
      [] mode = "Smoke3d2" -> "Smoke3d3"
      [] mode = "Smoke3d3" -> "Smoke3d4"
      [] OTHER -> "None"

\* the list that the last stage of a multi-stage record appends to
ListOf(mode) ==
    CASE mode = "Surface4" -> "surfs"
      [] mode = "Prt53" -> "prt5s"
      [] mode = "Device2" -> "devcs"
      [] mode = "Smoke3d4" -> "smoke_3d"
      [] OTHER -> ""

Staged ==
    {"Surface1", "Surface2", "Surface3", "Surface4", "Prt51", "Prt52", "Prt53",
     "Device1", "Device2", "Smoke3d1", "Smoke3d2", "Smoke3d3", "Smoke3d4"}

\* the number of lines, header included, of a block that is complete
LinesOf(mode) ==
    CASE mode = "Surface4" -> 5
      [] mode = "Prt53" -> 4
      [] mode = "Device2" -> 3
      [] OTHER -> 5

Declared == TokVal(block[2].toks[1], "u")
AfterCount == Len(block) - 2
AxisList ==
    CASE block[1].toks[1] = W("TRNX") -> "trnx"
      [] block[1].toks[1] = W("TRNY") -> "trny"
      [] OTHER -> "trnz"

ModeOf(name) ==
    CASE name = "GRID" -> "Grid"
      [] name \in {"SMOKF3D", "SMOKG3D"} -> "Smoke3d1"
      [] name \in {"SLCF", "SLCC"} -> "Slcf1"
      [] name = "BNDF" -> "Bndf1"
      [] name = "DEVICE_ACT" -> "DeviceAct"
      [] name \in {"TRNX", "TRNY", "TRNZ"} -> "Trn1"
      [] name \in CountKeywords -> CountMode(name)
      [] name \in Keywords -> StartMode(name)
      [] OTHER -> "None"

\* C29: a header line that ends an active block (a Trn2 table and a zero-count
\* OBST or VENT block, which append, as well as the blocks that are only reset)
\* is dispatched as a block header in the same iteration: after it the mode is
\* the starting mode of its keyword, or no block is active when the keyword is
\* unknown, and the line is the first of the block being read
C29_TerminatingHeaderDispatched ==
    [][(/\ HeaderRead /\ outcome' = Running
        /\ state # NoBlock
        /\ \/ state.mode \notin {"Surface3", "FdsVersion1", "FdsVersion2", "Revision"}
           \/ ended' \in {"reset", "push"})
          => /\ ended' \in {"reset", "push"}
             /\ ended' = "push" <=> (state.mode = "Trn2" \/ ZeroCount)
             /\ state'.mode = ModeOf(SplitName(LineRead).name)
             /\ block' = <<LineRead>>]_vars

\* the OBST header that ended a TRNX block opened an OBST block
C29_Witness ==
    /\ stage = "lines" /\ outcome = Running
    /\ ended = "push"
    /\ Len(pending.trnx) = 1
    /\ block = <<Header(<<W("OBST")>>)>>
    /\ state.mode = "ObstBlock1"

(***************************************************************************)
(* OBST and VENT blocks cut short by a header line.                        *)
(***************************************************************************)
\* an OBST block with a count of 1 or more, or a VENT block with a count other
\* than 0, whose two passes are not both complete
Incomplete ==
    \/ state.mode \in {"ObstBlock2", "ObstBlock3"} /\ state.n >= 1
    \/ state.mode \in {"Vent2", "Vent3"} /\ state.n_vents + state.n_dummy_vents >= 1

\* C30: a header line read while an OBST block with a count n >= 1, or a VENT
\* block with a count other than 0, has not completed both passes appends
\* nothing to the aggregate and discards the halves read so far: the line is
\* dispatched with no block active; at the end of the input an obstruction
\* or vent list count that differs from the count of GRID records is reported
\* as "mesh entries unbalanced"
C30_InterruptedBlockDropped ==
    [][/\ (HeaderRead /\ outcome' = Running /\ Incomplete)
              => /\ ended' = "reset"
                 /\ pending' = pending
                 /\ state' = HNone(NoBlock, pending, LineRead).state
                 /\ DOMAIN state' \cap {"first_obsts", "second_obsts", "first_vents",
                                        "second_vents", "first_dummy_vents",
                                        "second_dummy_vents"} = {}
       /\ (/\ stage = "lines" /\ stage' = "final"
           /\ \/ Len(pending.obsts) # Len(pending.grids)
              \/ Len(pending.vents) # Len(pending.grids))
              => outcome' = Err("mesh entries unbalanced") /\ manifest' = None]_vars

\* the input has ended with one GRID record and neither an obstruction list
\* nor a vent list, as after an OBST block cut short, and the call has ended
\* with the error
C30_Witness ==
    /\ stage = "final"
    /\ Len(pending.grids) = 1 /\ pending.obsts = <<>> /\ pending.vents = <<>>
    /\ outcome = Err("mesh entries unbalanced")
    /\ manifest = None

(***************************************************************************)
(* The end of the input.                                                   *)
(***************************************************************************)
\* C31: the end of the input is no terminator: whatever mode is active, the
\* aggregate that is finalized is the aggregate as the last line left it, and
\* the call ends as the finalization of that aggregate ends; the table of a
\* TRN block and the empty list of a zero-count OBST or VENT block that a
\* header line would have appended are not appended
C31_EndOfInputDropsBlock ==
    [][(stage = "lines" /\ stage' = "final")
          => /\ pending' = pending
             /\ outcome' = TryFrom(pending).outcome
             /\ manifest' = TryFrom(pending).manifest]_vars

\* the input has ended in a TRNX block that had read one entry, and no
\* transform table is in the aggregate
C31_Witness ==
    /\ stage = "final"
    /\ state.mode = "Trn2" /\ state.axis = "X" /\ Len(state.entries) = 1
    /\ pending.trnx = <<>> /\ pending.trny = <<>> /\ pending.trnz = <<>>

(***************************************************************************)
(* The two lines of an FDSVERSION block.                                   *)
(***************************************************************************)
\* C32: the two non-empty lines after an FDSVERSION header are both stored as
\* fds_version, the second over the first, whether they are indented or start
\* in column 0; a block header in the place of the second line is stored and
\* opens no block, and the body lines after it are read with no block active:
\* they change neither the mode nor the aggregate
C32_TwoVersionLines ==
    [][JustRead =>
        /\ state.mode = "FdsVersion1" =>
               /\ Len(block') = 2
               /\ pending' = [pending EXCEPT !.fds_version = Some(LineStr(LineRead))]
               /\ state' = St("FdsVersion2") /\ outcome' = Running
        /\ state.mode = "FdsVersion2" =>
               /\ Len(block') = 3
               /\ pending' = [pending EXCEPT !.fds_version = Some(LineStr(block'[3]))]
               /\ state' = NoBlock /\ outcome' = Running
        /\ (state = NoBlock /\ ~EndBlockLine(LineRead)) =>
               /\ pending' = pending
               /\ state' = NoBlock /\ outcome' = Running]_vars

\* a TITLE header was the second line after FDSVERSION: it is the stored
\* version, and the body line after it was read with no block active and left
\* no title
C32_Witness ==
    /\ stage = "lines" /\ outcome = Running
    /\ state = NoBlock
    /\ block = <<Header(<<W("FDSVERSION")>>), Txt>>
    /\ pending.fds_version = Some(Str("none", <<W("TITLE")>>))
    /\ pending.title = None

\* ---------------------------------------------------------------------------
\* C33: the NMESHES value takes no part in the final conversion: the outcome
\* and the manifest are the ones of the same records without an NMESHES value,
\* and a returned manifest has as many meshes as there are GRID records,
\* whatever NMESHES declared
C33_NMeshesNotValidated ==
    [][(stage = "lines" /\ stage' = "final") =>
          /\ outcome' = TryFrom([pending EXCEPT !.n_meshes = None]).outcome
          /\ manifest' = TryFrom([pending EXCEPT !.n_meshes = None]).manifest
          /\ outcome' = Ok <=> (EqualN(pending) /\ RequiredOk(pending))
          /\ outcome' = Ok =>
                 /\ IsSome(manifest')
                 /\ Len(Unwrap(manifest').meshes) = Len(pending.grids)]_vars

\* a manifest of two meshes was returned although NMESHES declared three
C33_Witness ==
    /\ stage = "final" /\ outcome = Ok
    /\ IsSome(manifest)
    /\ Len(Unwrap(manifest).meshes) = 2
    /\ Len(pending.grids) = 2
    /\ pending.n_meshes = Some(3)

\* ---------------------------------------------------------------------------
\* C34: a VENT count line that declares more dummy vents than vents never
\* lets the parser go on with an ordinary count between zero and the total:
\* the parser faults or goes on with a count beyond every declared total, and
\* no vent list is added for the block
C34_DummyAboveTotal ==
    [][(/\ JustRead /\ state.mode = "Vent1"
        /\ FieldsOk(LineRead.toks, <<"u", "u">>)
        /\ Fields(LineRead.toks, <<"u", "u">>)[2] > Fields(LineRead.toks, <<"u", "u">>)[1])
          => /\ \/ outcome' = Panic
                \/ /\ outcome' = Running /\ state'.mode = "Vent2"
                   /\ state'.n_vents > Fields(LineRead.toks, <<"u", "u">>)[1]
             /\ pending'.vents = pending.vents]_vars

\* the count line "1 2" of a VENT block was read and the parser faulted
C34_Witness ==
    /\ stage = "lines" /\ outcome = Panic
    /\ state.mode = "Vent1"
    /\ block = <<Header(<<W("VENT")>>), Body(<<U(1), U(2)>>)>>
    /\ pending.vents = <<>>

\* ---------------------------------------------------------------------------
\* C35: the loop of parse_slice_file ends through a failed frame read, which
\* is bound to come: no parse_frame of the iterator faults, and every
\* successful one moves the reader at least 24 bytes on in the stream
C35_FrameReadsEndTheLoop ==
    [][(parser # None /\ last'.op = "parse_frame") =>
          /\ last'.kind \in {"ok", "io", "reclen"}
          /\ last'.kind = "ok" => Unwrap(parser').pos >= Unwrap(parser).pos + 24]_vars

\* ---------------------------------------------------------------------------
\* C36: the reader stands on the boundary of the frame the counter names,
\* header_length + current_frame * frame_length, after new and after every
\* successful parse_frame or get_frame that follows calls which left it so:
\* new puts it there, a successful parse_frame keeps it there, and a
\* successful get_frame puts it there
Aligned(p) == p.pos = p.header_length + p.current_frame * FrameLength(p.header)

C36_CursorOnFrameBoundary ==
    [][/\ (last'.op = "new" /\ parser' # None) => Aligned(Unwrap(parser'))
       /\ (/\ FrameCall /\ last'.kind = "ok"
           /\ last'.op = "get_frame" \/ Aligned(Unwrap(parser)))
              => Aligned(Unwrap(parser'))]_vars

\* two frames were read one after the other and the reader is at the start
\* of frame 2
C36_Witness ==
    /\ parser # None
    /\ last.op = "parse_frame" /\ last.kind = "ok"
    /\ Unwrap(parser).current_frame = 2
    /\ Unwrap(parser).pos = Unwrap(parser).header_length + 2 * FrameLength(Unwrap(parser).header)
    /\ Unwrap(parser).pos = Len(bytes)

\* ---------------------------------------------------------------------------
\* C37: seek_frame(k) moves the reader to header_length + k * frame_length and
\* seek_next_frame moves it forward by frame_length; both leave the counter
\* unchanged, and after either of them the reader is not on the boundary of
\* the frame the counter names
SeekCall == parser # None /\ parser' # None /\ last'.op \in {"seek_frame", "seek_next_frame"}

SeekMoves ==
    /\ Unwrap(parser').current_frame = Unwrap(parser).current_frame
    /\ Unwrap(parser').header_length = Unwrap(parser).header_length
    /\ last'.kind = "ok"
    /\ last'.op = "seek_frame" =>
           /\ Unwrap(parser').pos = Unwrap(parser).header_length
                                        + last'.arg * FrameLength(Unwrap(parser).header)
           /\ last'.val.offset = Unwrap(parser').pos
    /\ last'.op = "seek_next_frame" =>
           Unwrap(parser').pos = Unwrap(parser).pos + FrameLength(Unwrap(parser).header)

C37_CounterNamesNoFrameAfterSeek ==
    [][SeekCall => (SeekMoves /\ ~Aligned(Unwrap(parser')))]_vars

\* C37, as the program has it: the seeks move the reader as said and leave the
\* counter unchanged; after seek_frame(k) the reader is on the boundary of the
\* frame the counter names exactly when k is the counter, and after
\* seek_next_frame it is not there when it was there before
C37_SeeksLeaveCounter ==
    [][SeekCall =>
          /\ SeekMoves
          /\ last'.op = "seek_frame" =>
                 (Aligned(Unwrap(parser')) <=> last'.arg = Unwrap(parser).current_frame)
          /\ (last'.op = "seek_next_frame" /\ Aligned(Unwrap(parser))) =>
                 ~Aligned(Unwrap(parser'))]_vars

\* after one frame was read, seek_frame(0) and then seek_frame(1) were called:
\* the counter is 1 and the reader is at the start of frame 1
C37_Witness ==
    /\ parser # None
    /\ last.op = "seek_frame" /\ last.arg = 1
    /\ Unwrap(parser).current_frame = 1
    /\ Aligned(Unwrap(parser))

\* ---------------------------------------------------------------------------
\* C38: a failed frame read is not rolled back: after a failed get_frame(k)
\* the counter is k, after a failed parse_frame it is what it was, the reader
\* stays where the read stopped, that place is on no frame boundary, and a
\* parse_frame that follows decodes from there
OnBoundary(p) == (p.pos - p.header_length) % FrameLength(p.header) = 0

FailedRead == FrameCall /\ last'.kind # "ok"

CounterAfterFailure ==
    /\ last'.op = "get_frame" => Unwrap(parser').current_frame = last'.arg
    /\ last'.op = "parse_frame" => Unwrap(parser').current_frame = Unwrap(parser).current_frame

\* twelve bytes on after a time record of two different tags, the end of the
\* frame after a payload record of two different tags, the end of the stream
\* after a short read
StoppedAt ==
    /\ TimeTagsDiffer(bytes, ReadFrom) =>
           last'.kind = "reclen" /\ Unwrap(parser').pos = ReadFrom + 12
    /\ (~TimeTagsDiffer(bytes, ReadFrom) /\ PayloadTagsDiffer(bytes, ReadFrom, NumValues)) =>
           last'.kind = "reclen" /\ Unwrap(parser').pos = ReadFrom + 20 + 4 * NumValues
    /\ last'.kind = "io" =>
           Unwrap(parser').pos = IF ReadFrom > Len(bytes) THEN ReadFrom ELSE Len(bytes)

DecodesFromThere ==
    (/\ parser # None /\ parser' # None
     /\ last.op \in {"parse_frame", "get_frame"} /\ last.kind \in {"io", "reclen"}
     /\ last'.op = "parse_frame" /\ last' # last)
        => last' = Call("parse_frame", 0, ParseDataSet(bytes, Unwrap(parser).pos, NumValues))

C39_TagsComparedWithEachOtherOnly ==
    [][(/\ FrameCall
        /\ PayloadTagsThere(bytes, ReadFrom, NumValues)
        /\ U32LE(bytes, ReadFrom) = U32LE(bytes, ReadFrom + 8)
        /\ U32LE(bytes, ReadFrom + 12) = U32LE(bytes, ReadFrom + 16 + 4 * NumValues))
          => /\ last'.kind = "ok"
             /\ last'.val = [time |-> U32LE(bytes, ReadFrom + 4),
                             values |-> [i \in 1..NumValues |->
                                            U32LE(bytes, ReadFrom + 12 + 4 * i)]]
             /\ Unwrap(parser').pos = ReadFrom + 20 + 4 * NumValues]_vars

\* the first two frames were returned although one record of them has two
\* equal tags that are not its length: 4 for a time record, 4N for a payload
C39_Witness ==
    /\ parser # None
    /\ last.op = "parse_frame" /\ last.kind = "ok"
    /\ Unwrap(parser).current_frame = 2 /\ Aligned(Unwrap(parser))
    /\ \E f \in 0..1 :
           \/ U32LE(bytes, SeekFrame(Unwrap(parser), f)) # 4
           \/ U32LE(bytes, SeekFrame(Unwrap(parser), f) + 12)
                  # 4 * NValues(Unwrap(parser).header.dimensions)

====
